---- MODULE Spec2Model ----
(***************************************************************************)
(* Batch-job lifecycle and checkpoint/resume engine of the short-anime     *)
(* pipeline: the position-based image model policy, the batch watcher      *)
(* (batch_crawler.py), the image batch submitter and the per-item image    *)
(* generator, the batch result retriever and its blocking poll.            *)
(*                                                                         *)
(* Each component has its own specification over its own variables; the    *)
(* variables of the other components are left unchanged by it.             *)
(***************************************************************************)
EXTENDS Integers, Sequences, FiniteSets, TLC

(***************************************************************************)
(* Bounds of the model.                                                    *)
(***************************************************************************)
MaxTotal == 50
MaxBatches == 2
MaxErrors == 1
MaxItems == 3
MaxRecords == 2
MaxRetrieves == 2
MaxWaitTicks == 2
MaxGenItems == 4
MaxLines == 3
MaxPromptRuns == 3
MaxVideos == 3
MaxTasks == 4
MaxCkImages == 2
MaxCkLines == 2
MaxCkDriveLines == 1
MaxEntries == 2
MaxRaises == 3
MaxOrdItems == 3
MaxJobRuns == 2
MaxLaunches == 2
MaxBadEntries == 3
MaxMotionRuns == 3
MaxMotionPrompts == 4

(***************************************************************************)
(* Model names of config.py / MODEL_PRICES.                                *)
(***************************************************************************)
HighModel == "gpt-image-1"
MiniModel == "gpt-image-1-mini"

\* MODEL_PRICES, in thousandths of a dollar per image
HighPrice == 250
MiniPrice == 52

VARIABLES
    \* --- position-based policy (select_model_for_image) ---
    polIndex,       \* index argument, 1-based
    polTotal,       \* total_count argument
    polModel,       \* (model, price) returned, "none" before the call
    \* --- watcher (batch_crawler.py) ---
    registry,       \* batch_status.json on disk: project -> entry or Absent
    provider,       \* provider-side status of every batch id, as of its last query
    cpc,            \* position of crawler_loop in its cycle
    mem,            \* status_data held in memory by the running cycle
    todo,           \* projects the status loop has still to visit
    completed,      \* completed_projects of the running cycle
    apiErrors,      \* status queries that have raised so far
    resolved,       \* projects whose chained flow succeeded, not registered since
    flowFailed,     \* projects whose chained flow failed in the running cycle
    \* --- image phase of one project (batch submitter, per-item generator) ---
    mode,           \* BATCH_API_ENABLED: "batch" or "realtime"
    total,          \* len(prompt_data_list): the images the project needs
    localImgs,      \* names of the *.png files in the local image directory
    driveImgs,      \* names of the *.png files in the project's Drive folder
    batchInfo,      \* gpt_batch_info.json, NoInfo while it does not exist
    gpc,            \* position of the per-item generator: "idle" or "loop"
    gpos,           \* index the generation loop has reached
    existing,       \* existing_images held by the running generator
    lastRun,        \* the run that started or ended in the last step
    lastReq,        \* the generation requests built or sent in the last step
    \* --- batch result retrieval (retrieve_batch_results) ---
    retHasOutput,   \* the completed batch has an output file
    retRecords,     \* the records of the output file, in file order
    retDisk,        \* local image directory: file name -> decoded content
    retInfo,        \* gpt_batch_info.json: status and the counts stored
    retRuns,        \* runs of retrieve_batch_results so far
    retCounts,      \* (success_count, failed_count) returned by each run
    retFirst,       \* the image directory as the first run left it
    \* --- blocking poll of the retriever under run_script ---
    pollPc,         \* "idle", or "loop" while the retriever polls
    pollStatus,     \* the provider's status of the polled batch
    pollElapsed,    \* check intervals slept since the poll started
    pollInfo,       \* status in gpt_batch_info.json of the polled batch
    pollSeen,       \* what every finished run looked like to its caller
    \* --- per-item image generator, request by request ---
    rtTotal,        \* len(prompt_data_list)
    rtPc,           \* "generate" or "sleep" inside the loop of main
    rtIndex,        \* the index the loop of main handles
    rtSent,         \* the requests sent for the item handled last, in order
    rtResult,       \* index -> "none", "success" or "failed"
    rtAccount,      \* first index whose call met an account error, else 0
    rtExit,         \* exit code of the run, "none" while it runs
    \* --- prompt (text) phase ---
    prLines,        \* len(script_lines)
    prFile,         \* prompts_data.jsonl: the records, in file order
    prList,         \* prompts_list.txt: custom ids of the lines it holds
    prBatch,        \* status in batch_info.json of the prompt batch
    prRuns,         \* runs of the phase so far
    prLast,         \* the run that has just ended
    \* --- video phase (p2_5_hailuo_generate_videos.py) ---
    vTotal,         \* total: the number of videos to make
    vExists,        \* video_checkpoint.json exists
    vDisk,          \* its content
    vPc,            \* "idle", "loop", "ended" or "killed"
    vIdx,           \* idx, the index the loop handles next
    vMem,           \* checkpoint, the dict in memory
    vStart,         \* the checkpoint as the run loaded it
    vHadFile,       \* the checkpoint file existed when the run started
    fail_count,     \* failures of the run
    vNextTask,      \* the task id the provider hands out next
    vSubmitted,     \* indices the run has sent a submission for
    vPolled,        \* task ids the run has polled or downloaded
    vStep,          \* "submit" or "poll": the external call the loop makes next
    vTask,          \* task_id of the item in hand, 0 when there is none
    vFiles,         \* indices whose NNN.mp4 is in the videos directory
    vMade,          \* indices whose video the run has downloaded
    \* --- checkpoint resolution against the remote store ---
    ckCaller,       \* "prompts", "submit", "generate" or "main": who resolves
    ckLocal,        \* names of the *.png files in the local image directory
    ckLines,        \* the lines of the local prompts_data.jsonl
    ckBefore,       \* the local tier as the resolution found it
    ckRemote,       \* the resolution went on to the remote tier
    ckParent,       \* GDRIVE_PARENT_FOLDER_ID: "id", or "none" when unset
    ckToken,        \* gdrive_token.json: "valid", "expired" or "missing"
    ckDrive,        \* the remote store: project folder, images, prompt file
    ckRaises,       \* the remote accesses that raise when they are made
    ckPc,           \* "start" before the resolution, "done" after it
    ckResult,       \* what the resolution returned and the faults it met
    \* --- control flow of crawler_loop ---
    lpPc,           \* position in the while loop, "ended" when it is left
    lpTodo,         \* entries the status loop has still to visit
    lpCompleted,    \* completed_projects whose chained flow is still to run
    lpLast,         \* the exception raised last, "none" before the first
    lpRaised,       \* exceptions raised so far
    lpEnd,          \* the exception that ended the loop, "none" while it runs
    \* --- the registry file under save_batch_status / load_batch_status ---
    svFile,         \* batch_status.json: the chunks written to it, in order
    svPrev,         \* the document the file held before the last save began
    svMem,          \* status_data, the document the last save writes
    svPc,           \* "idle", or "writing" between open(.., "w") and close
    svLoaded,       \* what the last load_batch_status returned or raised
    \* --- retrieval of one ended batch under an order of its records ---
    ordKind,        \* "image" or "prompt": which retriever runs
    ordRecords,     \* the result records, in the order the provider returns them
    ordPc,          \* "start" before retrieve_batch_results, "done" after it
    ordOut,         \* the artifacts the retrieval stored
    \* --- scheduled checker job (batch_checker_job.py), several runs ---
    jbBlob,         \* batch_status.json in the bucket: project -> status
    jbPc,           \* run -> "idle", "check", "trigger" or "done"
    jbMem,          \* run -> the projects dict the run holds
    jbCompleted,    \* run -> completed_projects of the run
    jbLaunches,     \* project -> post-flow jobs launched for it so far
    \* --- watcher cycle over a registry that holds a malformed entry ---
    bdFile,         \* batch_status.json: the entries in the order of the dict
    bdPc,           \* "load", "check", "sleep" or "cooldown"
    bdPos,          \* position of the status loop in the dict
    bdMem,          \* status_data of the running cycle
    bdSeen,         \* position -> the status the last query returned, or "none"
    \* --- the skip test of the image phase ---
    skTotal,        \* len(prompt_data_list)
    skImages,       \* existing_images, the resolved set of file names
    skRun,          \* the run that has ended: script, skipped, requests
    \* --- motion prompt phase (p1_3_claude_generate_motion.py) ---
    moTotal,        \* len(image_prompts)
    moFile,         \* motion_prompts_list.txt: line -> the image prompt it is for
    moRuns          \* runs of the phase so far

polVars == <<polIndex, polTotal, polModel>>
crawlVars == <<cpc, mem, todo, completed, apiErrors, resolved, flowFailed>>
watchVars == <<registry, provider, crawlVars>>
imgVars == <<mode, total, localImgs, driveImgs, batchInfo, gpc, gpos, existing,
             lastRun, lastReq>>
retVars == <<retHasOutput, retRecords, retDisk, retInfo, retRuns, retCounts,
             retFirst>>
pollVars == <<pollPc, pollStatus, pollElapsed, pollInfo, pollSeen>>
rtVars == <<rtTotal, rtPc, rtIndex, rtSent, rtResult, rtAccount, rtExit>>
prVars == <<prLines, prFile, prList, prBatch, prRuns, prLast>>
vidVars == <<vTotal, vExists, vDisk, vPc, vIdx, vMem, vStart, vHadFile,
             fail_count, vNextTask, vSubmitted, vPolled, vStep, vTask, vFiles,
             vMade>>
ckVars == <<ckCaller, ckLocal, ckLines, ckBefore, ckRemote, ckParent, ckToken,
            ckDrive, ckRaises, ckPc, ckResult>>
loopVars == <<lpPc, lpTodo, lpCompleted, lpLast, lpRaised, lpEnd>>
saveVars == <<svFile, svPrev, svMem, svPc, svLoaded>>
ordVars == <<ordKind, ordRecords, ordPc, ordOut>>
jobVars == <<jbBlob, jbPc, jbMem, jbCompleted, jbLaunches>>
badVars == <<bdFile, bdPc, bdPos, bdMem, bdSeen>>
skipVars == <<skTotal, skImages, skRun>>
motVars == <<moTotal, moFile, moRuns>>
extraVars == <<ordVars, jobVars, badVars, skipVars, motVars>>
moreVars == <<rtVars, prVars, vidVars, ckVars, loopVars, saveVars, extraVars>>
oldVars == <<polVars, watchVars, imgVars, retVars, pollVars>>
baseVars == <<oldVars, rtVars, prVars, vidVars, ckVars, loopVars, saveVars>>
notRtVars == <<oldVars, prVars, vidVars, ckVars, loopVars,
    saveVars, extraVars>>
notPrVars == <<oldVars, rtVars, vidVars, ckVars, loopVars,
    saveVars, extraVars>>
notVidVars == <<oldVars, rtVars, prVars, ckVars, loopVars,
    saveVars, extraVars>>
notCkVars == <<oldVars, rtVars, prVars, vidVars, loopVars,
    saveVars, extraVars>>
notLoopVars == <<oldVars, rtVars, prVars, vidVars, ckVars,
    saveVars, extraVars>>
notSaveVars == <<oldVars, rtVars, prVars, vidVars, ckVars, loopVars,
    extraVars>>
vars == <<oldVars, moreVars>>

(***************************************************************************)
(* select_model_for_image(index, total_count): the first image and the     *)
(* last two images use the high-quality model, every other the mini one.   *)
(***************************************************************************)
SelectLastOnly(index, total_count) ==
    IF index = 1 \/ index >= total_count
    THEN <<HighModel, HighPrice>>
    ELSE <<MiniModel, MiniPrice>>

select_model_for_image(index, total_count) ==
    IF index = 1 \/ index >= total_count - 1
    THEN <<HighModel, HighPrice>>
    ELSE <<MiniModel, MiniPrice>>

(***************************************************************************)
(* Values the variables of a component hold while another component's      *)
(* specification runs.                                                     *)
(***************************************************************************)
PolParked == polIndex = 1 /\ polTotal = 1 /\ polModel = "none"

CrawlParked ==
    /\ cpc = "off"
    /\ mem = <<>> /\ todo = <<>> /\ completed = <<>>
    /\ apiErrors = 0 /\ resolved = {} /\ flowFailed = {}

WatchParked == registry = <<>> /\ provider = <<>> /\ CrawlParked

NoRun == [script |-> "none", lookup |-> FALSE, done |-> 0, requests |-> 0,
          exit |-> "none"]

NoInfo == [batch_id |-> 0, status |-> "none", items |-> {}]

RetParked ==
    /\ retHasOutput = FALSE /\ retRecords = <<>> /\ retDisk = <<>>
    /\ retInfo = NoInfo /\ retRuns = 0 /\ retCounts = <<>> /\ retFirst = <<>>

PollParked ==
    /\ pollPc = "off" /\ pollStatus = "none" /\ pollElapsed = 0
    /\ pollInfo = "none" /\ pollSeen = {}

RtParked ==
    /\ rtTotal = 0 /\ rtPc = "off" /\ rtIndex = 0 /\ rtSent = <<>>
    /\ rtResult = <<>>
    /\ rtAccount = 0 /\ rtExit = "off"

NoPromptRun ==
    [kind |-> "none", complete |-> FALSE, calls |-> 0, before |-> <<>>]

PrParked ==
    /\ prLines = 0 /\ prFile = <<>> /\ prList = <<>> /\ prBatch = "none"
    /\ prRuns = 0 /\ prLast = NoPromptRun

\* load_checkpoint without a file
EmptyCheckpoint == [completed |-> {}, failed |-> {}, pending_tasks |-> <<>>]

VidParked ==
    /\ vTotal = 0 /\ vExists = FALSE /\ vDisk = EmptyCheckpoint
    /\ vPc = "off" /\ vIdx = 0 /\ vMem = EmptyCheckpoint
    /\ vStart = EmptyCheckpoint /\ vHadFile = FALSE /\ fail_count = 0
    /\ vNextTask = 0 /\ vSubmitted = {} /\ vPolled = {}
    /\ vStep = "off" /\ vTask = 0 /\ vFiles = {} /\ vMade = {}

NoDrive == [folder |-> FALSE, images |-> {}, has_prompts |-> FALSE, lines |-> <<>>]

NoResult == [raised |-> FALSE, value |-> "none", faults |-> {}]

CkParked ==
    /\ ckCaller = "none" /\ ckLocal = {} /\ ckParent = "none"
    /\ ckLines = <<>> /\ ckRemote = FALSE
    /\ ckBefore = [images |-> {}, lines |-> <<>>]
    /\ ckToken = "missing" /\ ckDrive = NoDrive /\ ckRaises = {}
    /\ ckPc = "off" /\ ckResult = NoResult

LoopParked ==
    /\ lpPc = "off" /\ lpTodo = 0 /\ lpCompleted = 0
    /\ lpLast = "none" /\ lpRaised = 0 /\ lpEnd = "none"

SaveParked ==
    /\ svFile = <<>> /\ svPrev = <<>> /\ svMem = <<>>
    /\ svPc = "off" /\ svLoaded = [ok |-> TRUE, doc |-> <<>>]

OrdParked ==
    ordKind = "none" /\ ordRecords = <<>> /\ ordPc = "off" /\ ordOut = <<>>

JobParked ==
    /\ jbBlob = <<>> /\ jbPc = <<>> /\ jbMem = <<>> /\ jbCompleted = <<>>
    /\ jbLaunches = <<>>

BadParked ==
    /\ bdFile = <<>> /\ bdPc = "off" /\ bdPos = 0 /\ bdMem = <<>>
    /\ bdSeen = <<>>

SkipParked ==
    /\ skTotal = 0 /\ skImages = {}
    /\ skRun = [script |-> "off", skipped |-> FALSE, requests |-> {}]

MotParked == moTotal = 0 /\ moFile = <<>> /\ moRuns = 0

ExtraParked ==
    OrdParked /\ JobParked /\ BadParked /\ SkipParked /\ MotParked

MoreParked ==
    /\ RtParked /\ PrParked /\ VidParked /\ CkParked /\ LoopParked /\ SaveParked
    /\ ExtraParked

ImgParked ==
    /\ mode = "off" /\ total = 1 /\ localImgs = {} /\ driveImgs = {} /\ batchInfo = NoInfo
    /\ gpc = "off" /\ gpos = 1 /\ existing = {}
    /\ lastRun = NoRun /\ lastReq = {}

OldParked ==
    /\ PolParked /\ WatchParked /\ ImgParked /\ RetParked /\ PollParked

BaseParked ==
    /\ OldParked
    /\ RtParked /\ PrParked /\ VidParked /\ CkParked /\ LoopParked /\ SaveParked

(***************************************************************************)
(* Policy specification: one call of select_model_for_image on arguments   *)
(* drawn from 1 <= index <= total_count <= MaxTotal.                       *)
(***************************************************************************)
PolicyInit ==
    /\ polTotal \in 1..MaxTotal
    /\ polIndex \in 1..polTotal
    /\ polModel = "none"
    /\ WatchParked
    /\ ImgParked
    /\ RetParked
    /\ PollParked
    /\ MoreParked

SelectModel ==
    /\ polModel = "none"
    /\ polModel' = select_model_for_image(polIndex, polTotal)
    /\ UNCHANGED <<polIndex, polTotal, watchVars, imgVars, retVars, pollVars, moreVars>>

PolicyNext == SelectModel

SpecPolicy == PolicyInit /\ [][PolicyNext]_vars

(***************************************************************************)
(* C9 as stated.  The policy returns the high-fidelity model exactly for   *)
(* the first item (index 1) and the last item (index = total), and the     *)
(* standard model for every other index.                                   *)
(***************************************************************************)
C9_HighExactlyFirstAndLast ==
    polModel # "none" =>
      /\ polModel[1] \in {HighModel, MiniModel}
      /\ polModel[1] = HighModel <=> (polIndex = 1 \/ polIndex = polTotal)

(***************************************************************************)
(* C9 as amended.  The policy returns the high-fidelity model exactly for  *)
(* the first item and the last two items (index >= total - 1), and the     *)
(* standard model for every other index; in particular policy(1,50) and    *)
(* policy(50,50) are high and policy(25,50) is standard.                   *)
(***************************************************************************)
C9_HighFirstAndLastTwo ==
    polModel # "none" =>
      /\ polModel[1] \in {HighModel, MiniModel}
      /\ polModel[1] = HighModel <=> polIndex \in {1, polTotal - 1, polTotal}
      /\ (polTotal = 50 /\ polIndex \in {1, 50}) => polModel[1] = HighModel
      /\ (polTotal = 50 /\ polIndex = 25) => polModel[1] = MiniModel

\* the policy has been asked for the item before the last of a long list
C9_Witness ==
    /\ polTotal >= 4 /\ polIndex = polTotal - 1
    /\ polModel # "none" /\ polModel[1] = HighModel

(***************************************************************************)
(* Watcher: batch_crawler.py.  The registry is the dict stored in          *)
(* batch_status.json under "projects"; a project is registered iff it is   *)
(* in the DOMAIN of the function.                                          *)
(***************************************************************************)
\* the project names under watch
Projects == {"alpha", "beta"}
BatchIds == 1..MaxBatches
BatchTypes == {"gpt_images", "claude_prompts"}

\* statuses the provider reports for a batch
OutstandingStatuses == {"validating", "in_progress"}
FailedStatuses == {"failed", "expired", "cancelled"}

\* crawler_loop line 273: entries the status loop steps over
SkipStatuses == {"completed", "failed", "expired", "cancelled"}

Put(map, key, val) ==
    [k \in DOMAIN map \cup {key} |-> IF k = key THEN val ELSE map[k]]

Remove(map, key) == [k \in DOMAIN map \ {key} |-> map[k]]

\* every order in which a dict with these keys can be iterated
Orders(S) ==
    {s \in [1..Cardinality(S) -> S] : \A i, j \in DOMAIN s : s[i] = s[j] => i = j}

Created == {b \in BatchIds : provider[b] # "none"}

\* register_batch: load, store the new entry under the project name, save
register_batch(reg, project_name, batch_id, batch_type) ==
    Put(reg, project_name,
        [batch_id |-> batch_id, batch_type |-> batch_type,
         status |-> "validating", retry_count |-> 0])

\* unregister_batch: load, delete the project if present, save
unregister_batch(reg, project_name) ==
    IF project_name \in DOMAIN reg THEN Remove(reg, project_name) ELSE reg

\* the statuses a batch last seen in status s can have reached by now
ProviderReach(s) ==
    IF s = "validating"
    THEN {"validating", "in_progress", "completed"} \cup FailedStatuses
    ELSE IF s = "in_progress"
    THEN {"in_progress", "completed"} \cup FailedStatuses
    ELSE {s}

\* check_batch_status_api: the provider's status, or "error" when the call raises
check_batch_status_api(batch_id) == ProviderReach(provider[batch_id]) \cup {"error"}

\* execute_post_batch_flow, from the results of the three run_script calls
execute_post_batch_flow(batch_type, p2b_ok, p25_ok, p3_ok) ==
    IF batch_type = "gpt_images"
    THEN (IF ~p2b_ok THEN FALSE ELSE IF ~p3_ok THEN FALSE ELSE TRUE)
    ELSE IF batch_type = "claude_prompts" THEN FALSE
    ELSE TRUE

\* crawler_loop lines 282-301: the entry after one status check
StatusUpdate(info, api_status) ==
    [info EXCEPT !.status = api_status,
                 !.retry_count = IF api_status = "error" THEN @ + 1 ELSE @]

WatchInit ==
    /\ registry = <<>>
    /\ provider = [b \in BatchIds |-> "none"]
    /\ cpc = "idle"
    /\ mem = <<>> /\ todo = <<>> /\ completed = <<>>
    /\ apiErrors = 0 /\ resolved = {} /\ flowFailed = {}
    /\ PolParked
    /\ ImgParked
    /\ RetParked
    /\ PollParked
    /\ MoreParked

\* a submitter registers the batch it has just created at the provider
RegisterBatch ==
    /\ Cardinality(Created) < MaxBatches
    /\ \E p \in Projects, t \in BatchTypes :
         LET b == Cardinality(Created) + 1 IN
         /\ provider' = [provider EXCEPT ![b] = "validating"]
         /\ registry' = register_batch(registry, p, b, t)
         /\ resolved' = resolved \ {p}
         /\ flowFailed' = flowFailed \ {p}
    /\ UNCHANGED <<cpc, mem, todo, completed, apiErrors, polVars, imgVars, retVars, pollVars, moreVars>>

\* crawler_loop lines 256-266: load the registry; sleep when it is empty
CrawlerLoad ==
    /\ cpc = "idle"
    /\ IF DOMAIN registry = {}
       THEN UNCHANGED <<cpc, mem, todo>>
       ELSE /\ mem' = registry
            /\ todo' \in Orders(DOMAIN registry)
            /\ cpc' = "check"
    /\ completed' = <<>>
    /\ flowFailed' = {}
    /\ UNCHANGED <<registry, provider, apiErrors, resolved, polVars, imgVars, retVars, pollVars, moreVars>>

\* crawler_loop lines 268-301: one iteration of the status loop
CrawlerCheck ==
    /\ cpc = "check" /\ todo # <<>>
    /\ LET p == Head(todo)
           info == mem[p] IN
       IF info.status \in SkipStatuses
       THEN UNCHANGED <<mem, completed, apiErrors, provider>>
       ELSE \E api_status \in check_batch_status_api(info.batch_id) :
              /\ api_status = "error" => apiErrors < MaxErrors
              /\ apiErrors' = IF api_status = "error" THEN apiErrors + 1 ELSE apiErrors
              /\ provider' = IF api_status = "error" THEN provider
                             ELSE [provider EXCEPT ![info.batch_id] = api_status]
              /\ mem' = [mem EXCEPT ![p] = StatusUpdate(info, api_status)]
              /\ completed' = IF api_status = "completed"
                              THEN Append(completed, p) ELSE completed
    /\ todo' = Tail(todo)
    /\ UNCHANGED <<registry, cpc, resolved, flowFailed, polVars, imgVars, retVars, pollVars, moreVars>>

\* crawler_loop line 304: save_batch_status(status_data)
CrawlerSave ==
    /\ cpc = "check" /\ todo = <<>>
    /\ registry' = mem
    /\ cpc' = "post"
    /\ UNCHANGED <<provider, mem, todo, completed, apiErrors, resolved,
                   flowFailed, polVars, imgVars, retVars, pollVars, moreVars>>

\* the failure branch forgets to save the post_flow_failed mark
PostFlowPersistNoSave(project_name, success) ==
    IF success
    THEN /\ registry' = unregister_batch(registry, project_name)
         /\ mem' = mem
    ELSE /\ mem' = [mem EXCEPT ![project_name].status = "post_flow_failed"]
         /\ registry' = registry

\* crawler_loop lines 318-324: what follows the chained flow of project_name
PostFlowPersist(project_name, success) ==
    IF success
    THEN /\ registry' = unregister_batch(registry, project_name)
         /\ mem' = mem
    ELSE /\ mem' = [mem EXCEPT ![project_name].status = "post_flow_failed"]
         /\ registry' = mem'

\* crawler_loop lines 307-324: the chained flow of one completed project
CrawlerPostFlow ==
    /\ cpc = "post" /\ completed # <<>>
    /\ LET p == Head(completed)
           info == mem[p] IN
       \E p2b_ok, p25_ok, p3_ok \in BOOLEAN :
         LET success == execute_post_batch_flow(info.batch_type,
                                                p2b_ok, p25_ok, p3_ok) IN
         /\ PostFlowPersist(p, success)
         /\ resolved' = IF success THEN resolved \cup {p} ELSE resolved
         /\ flowFailed' = IF success THEN flowFailed ELSE flowFailed \cup {p}
    /\ completed' = Tail(completed)
    /\ UNCHANGED <<provider, cpc, todo, apiErrors, polVars, imgVars, retVars, pollVars, moreVars>>

\* crawler_loop lines 327-328: the cycle ends, the loop sleeps
CrawlerSleep ==
    /\ cpc = "post" /\ completed = <<>>
    /\ cpc' = "idle"
    /\ mem' = <<>>
    /\ UNCHANGED <<registry, provider, todo, completed, apiErrors, resolved,
                   flowFailed, polVars, imgVars, retVars, pollVars, moreVars>>

\* the watcher process is killed inside a cycle, before the status loop or
\* the chained flows have finished, and started again
CrawlerCrash ==
    /\ cpc = "check" \/ (cpc = "post" /\ completed # <<>>)
    /\ cpc' = "idle"
    /\ mem' = <<>> /\ todo' = <<>> /\ completed' = <<>>
    /\ flowFailed' = {}
    /\ UNCHANGED <<registry, provider, apiErrors, resolved, polVars, imgVars, retVars, pollVars, moreVars>>

CrawlerStep ==
    CrawlerLoad \/ CrawlerCheck \/ CrawlerSave \/ CrawlerPostFlow \/ CrawlerSleep

WatchNext ==
    \/ RegisterBatch
    \/ CrawlerLoad
    \/ CrawlerCheck
    \/ CrawlerSave
    \/ CrawlerPostFlow
    \/ CrawlerSleep
    \/ CrawlerCrash

SpecWatch == WatchInit /\ [][WatchNext]_vars

\* the watcher keeps cycling as long as it is not killed
FairSpecWatch == WatchInit /\ [][WatchNext]_vars /\ WF_vars(CrawlerStep)

(***************************************************************************)
(* C2.  Registry durability under crash: once the watcher is no longer     *)
(* killed, every entry persisted as `completed` eventually has its chained *)
(* flow executed, after which it is removed or marked post_flow_failed.    *)
(***************************************************************************)
C2_CompletedEventuallyChained ==
    \A p \in Projects :
      (<>[][~CrawlerCrash]_vars) =>
        ((p \in DOMAIN registry /\ registry[p].status = "completed")
           ~> (p \notin DOMAIN registry
               \/ registry[p].status = "post_flow_failed"))

(***************************************************************************)
(* C3.  A project whose chained flow succeeded is absent from the          *)
(* persisted registry and stays absent until it is registered again.       *)
(***************************************************************************)
C3_ResolvedStaysAbsent == \A p \in resolved : p \notin DOMAIN registry

TEST_MODE_LIMIT == 0

\* config.py lines 35-40 with USE_HIGH_QUALITY = False
GPT_IMAGE_MODEL == MiniModel

\* the project named by _current_project.json
CurrentProject == "alpha"

\* str(n): the decimal digits of a natural number
RECURSIVE Decimal(_)
Decimal(n) == IF n < 10 THEN <<n>> ELSE Append(Decimal(n \div 10), n % 10)

\* the format specification 0<width>d: zeros on the left up to the width
RECURSIVE ZeroPad(_, _)
ZeroPad(digits, width) ==
    IF Len(digits) >= width THEN digits ELSE ZeroPad(<<0>> \o digits, width)

\* f"{index:03d}.png"
FileName(index) == <<ZeroPad(Decimal(index), 3), "png">>

\* f"image_{index:03d}", as the parts around the underscore
CustomId(index) == <<"image", ZeroPad(Decimal(index), 3)>>

\* p2_gpt_batch_submit.check_existing_images: the local files if there are
\* any, else the Drive listing when it can be obtained, else nothing
check_existing_images(local, drive, drive_ok) ==
    IF local # {} THEN local
    ELSE IF drive_ok /\ drive # {} THEN drive
    ELSE {}

\* p2_gpt_generate_images.check_existing_images: the same resolution (the
\* download of the listed files is part of GenStart)
generate_check_existing_images(local, drive, drive_ok) ==
    IF local # {} THEN local
    ELSE IF ~drive_ok THEN {}
    ELSE IF drive # {} THEN drive
    ELSE {}

\* the skip test misses the case done = total
AllDoneStrict(existing_images, total_count) ==
    Cardinality(existing_images) > total_count

\* len(existing_images) >= total_count (submitter line 322, generator line 650)
AllDone(existing_images, total_count) ==
    Cardinality(existing_images) >= total_count

\* the first limit elements of an ascending list of indices
FirstN(indices, limit) ==
    {i \in indices : Cardinality({j \in indices : j < i}) < limit}

\* the filter looks for the file name without the zero padding
PendingUnpadded(existing_images, total_count) ==
    LET pending == {i \in 1..total_count :
                      <<Decimal(i), "png">> \notin existing_images} IN
    IF TEST_MODE_LIMIT > 0 THEN FirstN(pending, TEST_MODE_LIMIT) ELSE pending

\* submitter lines 327-337: the indices of prompts_to_process
prompts_to_process(existing_images, total_count) ==
    LET pending == {i \in 1..total_count :
                      FileName(i) \notin existing_images} IN
    IF TEST_MODE_LIMIT > 0 THEN FirstN(pending, TEST_MODE_LIMIT) ELSE pending

\* create_batch_file: one request per prompt, its model from the policy
create_batch_file(indices, total_count) ==
    {[index |-> i, custom_id |-> CustomId(i),
      model |-> select_model_for_image(i, total_count)[1],
      prompt |-> "original"] : i \in indices}

\* generate_and_save_image: the requests sent for one item.  first is the
\* outcome of the request with the original prompt; after a moderation
\* error one more request is sent with the sanitized prompt
generate_requests(index, total_count, first) ==
    {[index |-> index, custom_id |-> <<>>,
      model |-> select_model_for_image(index, total_count)[1],
      prompt |-> "original"]}
    \cup (IF first = "moderation"
          THEN {[index |-> index, custom_id |-> <<>>,
                 model |-> GPT_IMAGE_MODEL, prompt |-> "sanitized"]}
          ELSE {})

\* generate_and_save_image returns True: an image was written
generate_saved(first, retry) ==
    first = "ok" \/ (first = "moderation" /\ retry = "ok")

\* the generator's loop runs over prompt_data_list[:TEST_MODE_LIMIT]
LoopEnd == IF TEST_MODE_LIMIT > 0 /\ TEST_MODE_LIMIT < total
           THEN TEST_MODE_LIMIT ELSE total

\* int(text) of a non-empty string of decimal digits
RECURSIVE ParseInt(_)
ParseInt(digits) ==
    IF Len(digits) = 1 THEN digits[1]
    ELSE 10 * ParseInt(SubSeq(digits, 1, Len(digits) - 1)) + digits[Len(digits)]

\* a record with status 200 and no image data is not counted at all
RetrieveRecordDropNoData(result, acc) ==
    IF Len(result.custom_id) < 2 \/ result.custom_id[2] = <<>>
    THEN [acc EXCEPT !.failed = @ + 1]
    ELSE LET image_num == ParseInt(result.custom_id[2]) IN
         IF result.status_code = 200
         THEN IF result.b64_json = "" THEN acc
              ELSE IF result.b64_json = "invalid"
              THEN [acc EXCEPT !.failed = @ + 1]
              ELSE [acc EXCEPT !.disk = Put(@, FileName(image_num),
                                            result.b64_json),
                               !.success = @ + 1]
         ELSE [acc EXCEPT !.failed = @ + 1]

\* retrieve_batch_results lines 202-258: one result record.  The custom id
\* is split at the underscore and its second part read as an integer; a
\* missing part, a part that is no number and data that is no base64 raise,
\* and the except clause counts the record as failed
RetrieveRecord(result, acc) ==
    IF Len(result.custom_id) < 2 \/ result.custom_id[2] = <<>>
    THEN [acc EXCEPT !.failed = @ + 1]
    ELSE LET image_num == ParseInt(result.custom_id[2]) IN
         IF result.status_code = 200
         THEN IF result.b64_json = ""
              THEN [acc EXCEPT !.failed = @ + 1]
              ELSE IF result.b64_json = "invalid"
              THEN [acc EXCEPT !.failed = @ + 1]
              ELSE [acc EXCEPT !.disk = Put(@, FileName(image_num),
                                            result.b64_json),
                               !.success = @ + 1]
         ELSE [acc EXCEPT !.failed = @ + 1]

RECURSIVE RetrieveLoop(_, _)
RetrieveLoop(results, acc) ==
    IF results = <<>> THEN acc
    ELSE RetrieveLoop(Tail(results), RetrieveRecord(Head(results), acc))

\* retrieve_batch_results: (0, 0) without touching anything when the batch
\* has no output file, else every record of the output file in turn
retrieve_batch_results(has_output, results, disk) ==
    IF ~has_output
    THEN [disk |-> disk, success |-> 0, failed |-> 0]
    ELSE RetrieveLoop(results, [disk |-> disk, success |-> 0, failed |-> 0])

ImageInit ==
    /\ mode \in {"batch", "realtime"}
    /\ total \in 1..MaxItems
    /\ localImgs = {} /\ driveImgs = {}
    /\ batchInfo = NoInfo
    /\ gpc = "idle" /\ gpos = 1 /\ existing = {}
    /\ lastRun = NoRun /\ lastReq = {}
    /\ registry = <<>>
    /\ provider = [b \in BatchIds |-> "none"]
    /\ CrawlParked
    /\ PolParked
    /\ RetParked
    /\ PollParked
    /\ MoreParked

(***************************************************************************)
(* One run of the batch submitter's main.  outcome is how far the run      *)
(* gets once it has decided to submit: "ok" (all of it), "api_error" (the  *)
(* upload or batches.create raises), "register_error" (register_batch      *)
(* raises and the run goes on), or the process is killed right after       *)
(* batches.create or right after gpt_batch_info.json is written.           *)
(***************************************************************************)
SubmitOutcomes ==
    {"ok", "api_error", "register_error", "killed_after_create",
     "killed_after_info"}

\* a variant that writes gpt_batch_info.json before the provider is called
SubmitSavesFirst(outcome, batch_id, items, info) ==
    [batch_id |-> batch_id, status |-> "validating", items |-> items]

\* submit_batch_job lines 227-270, gpt_batch_info.json after it: the upload
\* and batches.create come first and raise before anything is written; the
\* file is written once the provider has returned the batch id
submit_batch_job(outcome, batch_id, items, info) ==
    IF outcome \in {"api_error", "killed_after_create"} THEN info
    ELSE [batch_id |-> batch_id, status |-> "validating", items |-> items]

SubmitRun ==
    /\ mode = "batch"
    /\ \E drive_ok \in BOOLEAN, outcome \in SubmitOutcomes :
         LET existing_images ==
                 check_existing_images(localImgs, driveImgs, drive_ok)
             done == Cardinality(existing_images)
             lookup == localImgs = {} /\ drive_ok
             to_process == prompts_to_process(existing_images, total)
             batch_id == Cardinality(Created) + 1
         IN
         IF AllDone(existing_images, total) \/ to_process = {}
         THEN \* lines 322-325 and 343-345: sys.exit(0) before any request
              /\ lastRun' = [script |-> "submit", lookup |-> lookup,
                             done |-> done, requests |-> 0, exit |-> "0"]
              /\ lastReq' = {}
              /\ UNCHANGED <<provider, batchInfo, registry>>
         ELSE /\ Cardinality(Created) < MaxBatches
              /\ lastReq' = create_batch_file(to_process, total)
              /\ batchInfo' = submit_batch_job(outcome, batch_id, to_process,
                                                batchInfo)
              /\ IF outcome = "api_error"
                 THEN /\ lastRun' = [script |-> "submit", lookup |-> lookup,
                                     done |-> done, requests |-> 0,
                                     exit |-> "1"]
                      /\ UNCHANGED <<provider, registry>>
                 ELSE /\ provider' = [provider EXCEPT ![batch_id] = "validating"]
                      /\ registry' =
                           IF outcome = "ok"
                           THEN register_batch(registry, CurrentProject,
                                               batch_id, "gpt_images")
                           ELSE registry
                      /\ lastRun' =
                           [script |-> "submit", lookup |-> lookup,
                            done |-> done, requests |-> 1,
                            exit |-> IF outcome \in {"ok", "register_error"}
                                     THEN "0" ELSE "killed"]
    /\ UNCHANGED <<mode, total, localImgs, driveImgs, gpc, gpos, existing,
                   crawlVars, polVars, retVars, pollVars, moreVars>>

\* the provider works on a batch it has accepted
BatchProgress ==
    /\ mode = "batch"
    /\ \E b \in Created :
         \E s \in ProviderReach(provider[b]) \ {provider[b]} :
           provider' = [provider EXCEPT ![b] = s]
    /\ lastRun' = NoRun /\ lastReq' = {}
    /\ UNCHANGED <<mode, total, localImgs, driveImgs, batchInfo, gpc, gpos,
                   existing, registry, crawlVars, polVars, retVars, pollVars, moreVars>>

\* the provider's output file for the requests of a batch that succeeded
RECURSIVE BatchResults(_)
BatchResults(indices) ==
    IF indices = {} THEN <<>>
    ELSE LET i == CHOOSE x \in indices : \A y \in indices : x <= y IN
         <<[custom_id |-> CustomId(i), status_code |-> 200,
            b64_json |-> "png"]>> \o BatchResults(indices \ {i})

(***************************************************************************)
(* One run of the batch retriever's main on the batch gpt_batch_info.json  *)
(* names, once its poll has seen the batch completed: the provider's       *)
(* output file holds a record for the requests in okset, each image is     *)
(* written and those in upset reach the Drive folder.  The output file of  *)
(* a batch never changes, so a later retrieval of the same batch writes    *)
(* the same images again; the first retrieval is the step modelled here.   *)
(***************************************************************************)
RetrieveRun ==
    /\ mode = "batch"
    /\ batchInfo # NoInfo /\ batchInfo.status # "completed"
    /\ provider[batchInfo.batch_id] = "completed"
    /\ \E okset \in SUBSET batchInfo.items :
         \E upset \in SUBSET okset :
           LET out == retrieve_batch_results(okset # {}, BatchResults(okset),
                                             <<>>)
           IN
           /\ localImgs' = localImgs \cup DOMAIN out.disk
           /\ driveImgs' = driveImgs \cup {FileName(i) : i \in upset}
           /\ batchInfo' = IF okset # {}
                           THEN [batchInfo EXCEPT !.status = "completed"]
                           ELSE batchInfo
           /\ lastRun' = [script |-> "retrieve", lookup |-> FALSE,
                          done |-> out.success, requests |-> 0, exit |-> "0"]
    /\ lastReq' = {}
    /\ UNCHANGED <<mode, total, gpc, gpos, existing, watchVars, polVars, retVars, pollVars, moreVars>>

(***************************************************************************)
(* The per-item generator.  GenStart is main up to the loop: checkpoint    *)
(* resolution (with the download of the files the Drive listing names:     *)
(* got are those whose download succeeds) and the skip test.               *)
(***************************************************************************)
GenStart ==
    /\ mode = "realtime" /\ gpc = "idle"
    /\ \E drive_ok \in BOOLEAN :
         LET existing_images ==
                 generate_check_existing_images(localImgs, driveImgs, drive_ok)
             from_drive == localImgs = {} /\ drive_ok /\ driveImgs # {}
         IN
         /\ IF from_drive
            THEN \E got \in SUBSET driveImgs : localImgs' = got
            ELSE localImgs' = localImgs
         /\ IF AllDone(existing_images, total)
            THEN \* lines 650-658: sys.exit(0)
                 /\ lastRun' = [script |-> "generate",
                                lookup |-> (localImgs = {} /\ drive_ok),
                                done |-> Cardinality(existing_images),
                                requests |-> 0, exit |-> "0"]
                 /\ UNCHANGED <<gpc, gpos, existing>>
            ELSE /\ lastRun' = [script |-> "generate",
                                lookup |-> (localImgs = {} /\ drive_ok),
                                done |-> Cardinality(existing_images),
                                requests |-> 0, exit |-> "running"]
                 /\ gpc' = "loop" /\ gpos' = 1
                 /\ existing' = existing_images
    /\ lastReq' = {}
    /\ UNCHANGED <<mode, total, driveImgs, batchInfo, watchVars, polVars, retVars, pollVars, moreVars>>

\* lines 671-691: one iteration of the generation loop
GenItem ==
    /\ gpc = "loop" /\ gpos <= LoopEnd
    /\ IF FileName(gpos) \in existing
       THEN /\ lastReq' = {}
            /\ UNCHANGED <<localImgs, driveImgs>>
       ELSE \E first \in {"ok", "nodata", "moderation", "error"},
               retry \in {"ok", "nodata", "error"},
               upload_ok \in BOOLEAN :
              LET saved == generate_saved(first, retry) IN
              /\ lastReq' = generate_requests(gpos, total, first)
              /\ localImgs' = IF saved THEN localImgs \cup {FileName(gpos)}
                              ELSE localImgs
              /\ driveImgs' = IF saved /\ upload_ok
                              THEN driveImgs \cup {FileName(gpos)}
                              ELSE driveImgs
    /\ gpos' = gpos + 1
    /\ lastRun' = NoRun
    /\ UNCHANGED <<mode, total, batchInfo, gpc, existing, watchVars, polVars, retVars, pollVars, moreVars>>

\* lines 693-741: the loop is over, the run ends without error_occurred
GenEnd ==
    /\ gpc = "loop" /\ gpos > LoopEnd
    /\ gpc' = "idle" /\ gpos' = 1 /\ existing' = {}
    /\ lastRun' = [script |-> "generate", lookup |-> FALSE, done |-> 0,
                   requests |-> 0, exit |-> "0"]
    /\ lastReq' = {}
    /\ UNCHANGED <<mode, total, localImgs, driveImgs, batchInfo,
                   watchVars, polVars, retVars, pollVars, moreVars>>

\* the generator is stopped inside the loop: SIGINT and SIGTERM end it with
\* sys.exit(0) (handle_interrupt), a kill ends it without an exit code
GenStop ==
    /\ gpc = "loop" /\ gpos <= LoopEnd
    /\ \E sig \in {"SIGTERM", "SIGKILL"} :
         lastRun' = [script |-> "generate", lookup |-> FALSE, done |-> 0,
                     requests |-> 0,
                     exit |-> IF sig = "SIGTERM" THEN "0" ELSE "killed"]
    /\ gpc' = "idle" /\ gpos' = 1 /\ existing' = {}
    /\ lastReq' = {}
    /\ UNCHANGED <<mode, total, localImgs, driveImgs, batchInfo,
                   watchVars, polVars, retVars, pollVars, moreVars>>

\* the project is taken up again where the local image directory is empty
FreshWorkdir ==
    /\ gpc = "idle" /\ localImgs # {}
    /\ localImgs' = {}
    /\ lastRun' = NoRun /\ lastReq' = {}
    /\ UNCHANGED <<mode, total, driveImgs, batchInfo, gpc, gpos, existing,
                   watchVars, polVars, retVars, pollVars, moreVars>>

ImageNext ==
    \/ SubmitRun
    \/ BatchProgress
    \/ RetrieveRun
    \/ GenStart
    \/ GenItem
    \/ GenEnd
    \/ GenStop
    \/ FreshWorkdir

SpecImage == ImageInit /\ [][ImageNext]_vars

(***************************************************************************)
(* C1.  At most one active job per project and kind: the submitter never   *)
(* creates a new batch at the provider while a batch it created earlier    *)
(* for the project is still outstanding (validating or in_progress).       *)
(***************************************************************************)
C1_NoSubmitWhileOutstanding ==
    [][Created' # Created =>
         \A b \in Created : provider[b] \notin OutstandingStatuses]_vars

(***************************************************************************)
(* C5.  Skip correctness: a run of the submitter or of the per-item        *)
(* generator whose checkpoint resolution reports a done count of at least  *)
(* the expected total issues no external submission and ends with exit     *)
(* code 0.                                                                 *)
(***************************************************************************)
C5_SkipIssuesNothing ==
    (lastRun.script \in {"submit", "generate"} /\ lastRun.done >= total) =>
      /\ lastRun.requests = 0
      /\ lastReq = {}
      /\ lastRun.exit = "0"

\* the submitter has skipped on a complete checkpoint found on the Drive
C5_Witness ==
    /\ lastRun.script = "submit" /\ lastRun.lookup
    /\ lastRun.done >= total /\ total >= 2
    /\ lastRun.exit = "0"

(***************************************************************************)
(* C6 as stated.  Partial checkpoint: when the local tier is empty and the *)
(* remote tier holds the images of a subset S of the indices 1..total, the *)
(* batch request the submitter builds contains exactly the indices of      *)
(* 1..total that are not in S.  lastRun and lastReq describe the run that   *)
(* has just ended, and a run of the submitter leaves both tiers as found.  *)
(***************************************************************************)
C6_RequestIsComplementOfRemote ==
    (lastRun.script = "submit" /\ localImgs = {}) =>
      {r.index : r \in lastReq} =
        {i \in 1..total : FileName(i) \notin driveImgs}

(***************************************************************************)
(* C6 as amended.  When the local tier is empty, the remote listing is     *)
(* obtained and the remote tier holds the images of a subset S of the      *)
(* indices 1..total, the batch request the submitter builds contains       *)
(* exactly the indices of 1..total that are not in S.                      *)
(***************************************************************************)
C6_RequestIsComplementOfListing ==
    (lastRun.script = "submit" /\ localImgs = {} /\ lastRun.lookup) =>
      {r.index : r \in lastReq} =
        {i \in 1..total : FileName(i) \notin driveImgs}

\* a batch has been submitted for what a partial remote checkpoint left
C6_Witness ==
    /\ lastRun.script = "submit" /\ lastRun.lookup
    /\ lastRun.done > 0 /\ lastRun.done < total
    /\ lastRun.requests = 1 /\ lastRun.exit = "0"
    /\ Cardinality(lastReq) = total - lastRun.done

(***************************************************************************)
(* C10.  Every generation request for an item, in a batch file or sent by  *)
(* the per-item generator, the request after a content-policy rejection    *)
(* included, names the model the policy selects for the item's index.      *)
(***************************************************************************)
C10_RequestModelFollowsPolicy ==
    \A r \in lastReq : r.model = select_model_for_image(r.index, total)[1]

(***************************************************************************)
(* Retrieval of a completed batch, run more than once.  The output file of *)
(* a completed batch never changes, so every run reads the same records.   *)
(***************************************************************************)
RecordIds == {CustomId(1), CustomId(2), <<"image", <<1>>>>, <<"image">>}

\* the b64_json of a record: absent, not base64, or one of two images
ImageData == {"", "invalid", "A", "B"}

ResultRecords ==
    [custom_id : RecordIds, status_code : {200, 400}, b64_json : ImageData]

SeqsUpTo(S, n) == UNION {[1..k -> S] : k \in 0..n}

\* gpt_batch_info.json as the submitter wrote it
SubmittedInfo ==
    [status |-> "validating", success_count |-> 0, failed_count |-> 0]

RetrieveInit ==
    /\ retHasOutput \in BOOLEAN
    /\ retRecords \in (IF retHasOutput THEN SeqsUpTo(ResultRecords, MaxRecords)
                       ELSE {<<>>})
    /\ retDisk \in {<<>>, Put(<<>>, FileName(1), "old")}
    /\ retInfo = SubmittedInfo
    /\ retRuns = 0 /\ retCounts = <<>> /\ retFirst = <<>>
    /\ PolParked
    /\ WatchParked
    /\ ImgParked
    /\ PollParked
    /\ MoreParked

\* one run of retrieve_batch_results on the batch
Retrieve ==
    /\ retRuns < MaxRetrieves
    /\ LET r == retrieve_batch_results(retHasOutput, retRecords, retDisk) IN
         /\ retDisk' = r.disk
         /\ retCounts' = Append(retCounts, <<r.success, r.failed>>)
         /\ retFirst' = IF retRuns = 0 THEN r.disk ELSE retFirst
         /\ retInfo' = IF retHasOutput
                       THEN [status |-> "completed",
                             success_count |-> r.success,
                             failed_count |-> r.failed]
                       ELSE retInfo
    /\ retRuns' = retRuns + 1
    /\ UNCHANGED <<retHasOutput, retRecords, polVars, watchVars, imgVars,
                   pollVars, moreVars>>

RetrieveNext == Retrieve

SpecRetrieve == RetrieveInit /\ [][RetrieveNext]_vars

(***************************************************************************)
(* C7.  Idempotent retrieval: after any further run on the same completed  *)
(* job the image directory holds the same files with the same content as   *)
(* after the first run, and in every run success_count + failed_count is   *)
(* the number of result records.                                           *)
(***************************************************************************)
C7_RetrieveIdempotent ==
    /\ retRuns >= 1 => retDisk = retFirst
    /\ \A k \in DOMAIN retCounts :
         retCounts[k][1] + retCounts[k][2] = Len(retRecords)

\* two runs over two records, one saved over an older file and one failed
C7_Witness ==
    /\ retRuns = 2 /\ Len(retRecords) = 2
    /\ retCounts[1] = <<1, 1>> /\ retCounts[2] = <<1, 1>>
    /\ FileName(1) \in DOMAIN retDisk /\ retDisk[FileName(1)] = "A"
    /\ retInfo.status = "completed"

(***************************************************************************)
(* The blocking poll of a retriever script run by run_script.  pollPc      *)
(* names the script whose loop is running: "p2" is                         *)
(* p2_gpt_batch_retrieve.py, "p1" is p1_claude_batch_retrieve.py.  Time is *)
(* counted in check intervals.                                             *)
(***************************************************************************)
PollScripts == {"p1", "p2"}

\* the status that ends the loop with success, and those that end it with failure
PollDone(script) == IF script = "p2" THEN "completed" ELSE "ended"

PollFailed(script) ==
    IF script = "p2" THEN {"failed", "expired", "cancelled"}
    ELSE {"canceling", "canceled", "expired"}

PollTerminal(script) == {PollDone(script)} \cup PollFailed(script)

\* what the provider can report for a batch last seen in status s
PollReach(script, s) ==
    IF script = "p2" THEN ProviderReach(s)
    ELSE IF s = "in_progress"
    THEN {"in_progress", "ended", "canceling", "expired"}
    ELSE {s}

\* run_script: True iff the child's return code is 0
run_script(returncode) == returncode = "0"

PollInit ==
    /\ pollPc = "idle" /\ pollStatus = "none" /\ pollElapsed = 0
    /\ pollInfo = "none" /\ pollSeen = {}
    /\ PolParked
    /\ WatchParked
    /\ ImgParked
    /\ RetParked
    /\ MoreParked

\* run_script starts a retriever on a batch that is still being processed
PollStart ==
    /\ pollPc = "idle"
    /\ \E script \in PollScripts :
         /\ pollPc' = script
         /\ pollStatus' = IF script = "p2" THEN "validating" ELSE "in_progress"
         /\ pollInfo' = IF script = "p2" THEN "validating" ELSE "in_progress"
    /\ pollElapsed' = 0
    /\ UNCHANGED <<pollSeen, polVars, watchVars, imgVars, retVars, moreVars>>

PollFinish(cause, returncode, info, has_output) ==
    /\ pollSeen' = pollSeen \cup {[script |-> pollPc, cause |-> cause,
                                   returncode |-> returncode,
                                   ok |-> run_script(returncode),
                                   info |-> info,
                                   output |-> has_output]}
    /\ pollPc' = "idle"
    /\ pollInfo' = info

\* one iteration of the while loop: query the provider, leave on a final
\* status or on the timeout, else sleep one interval.  On the status that
\* ends the loop with success the results are retrieved and main returns
\* True; the p2 retriever returns (0, 0) and leaves gpt_batch_info.json as
\* it is when the batch has no output file
PollCheck ==
    /\ pollPc \in PollScripts
    /\ \E status \in PollReach(pollPc, pollStatus) \cup {"error"} :
         IF status = "error"
         THEN /\ PollFinish("error", "1", pollInfo, FALSE)
              /\ UNCHANGED <<pollStatus, pollElapsed>>
         ELSE /\ pollStatus' = status
              /\ IF status = PollDone(pollPc)
                 THEN /\ \E has_output \in
                             (IF pollPc = "p2" THEN BOOLEAN ELSE {TRUE}) :
                           PollFinish(status, "0",
                                      IF has_output THEN "completed"
                                      ELSE pollInfo,
                                      has_output)
                      /\ UNCHANGED pollElapsed
                 ELSE IF status \in PollFailed(pollPc)
                 THEN /\ PollFinish(status, "1", pollInfo, FALSE)
                      /\ UNCHANGED pollElapsed
                 ELSE IF pollElapsed > MaxWaitTicks
                 THEN /\ PollFinish("timeout", "1", pollInfo, FALSE)
                      /\ UNCHANGED pollElapsed
                 ELSE /\ pollElapsed' = pollElapsed + 1
                      /\ UNCHANGED <<pollPc, pollInfo, pollSeen>>
    /\ UNCHANGED <<polVars, watchVars, imgVars, retVars, moreVars>>

\* run_script's own timeout, as long as the retriever's: the child is
\* killed and there is no return code
RunScriptTimeout ==
    /\ pollPc \in PollScripts
    /\ pollElapsed >= MaxWaitTicks
    /\ PollFinish("timeout", "none", pollInfo, FALSE)
    /\ UNCHANGED <<pollStatus, pollElapsed, polVars, watchVars, imgVars,
                   retVars, moreVars>>

PollNext == PollStart \/ PollCheck \/ RunScriptTimeout

SpecPoll == PollInit /\ [][PollNext]_vars

(***************************************************************************)
(* C8.  Timeout against expiry: a blocking poll whose job reaches no final *)
(* provider status within the maximum wait ends with an outcome its caller *)
(* can tell from the outcome of a job the provider reports as expired, and *)
(* records no final provider status in the job descriptor.                 *)
(***************************************************************************)
C8_TimeoutToldFromExpired ==
    /\ \A x, y \in pollSeen :
         (x.script = y.script /\ x.cause = "timeout" /\ y.cause = "expired")
           => x.ok # y.ok
    /\ \A x \in pollSeen :
         x.cause = "timeout" => x.info \notin PollTerminal(x.script)

(***************************************************************************)
(* The per-item image generator, request by request.  One step is one      *)
(* pass of the loop of main: generate_and_save_image for the next prompt,  *)
(* with every call that call_api_with_retry makes for it.                  *)
(***************************************************************************)
max_retries == 3

\* What one images.generate call can come to.  "moderation" is a
\* BadRequestError whose text holds content_policy or moderation, "safety" a
\* BadRequestError whose text holds safety or unsafe and neither of those,
\* "billing" an error whose text holds credit or billing (quota), "auth" an
\* authentication error, "transient" any other error, "no_data" a response
\* without b64_json.
Responses ==
    {"ok", "no_data", "moderation", "safety", "billing", "auth", "transient"}

\* call_api_with_retry lines 56-77: the call returns, or raises at once
EndsCall(response) == response \in {"ok", "no_data", "moderation", "billing"}

\* the responses one call_api_with_retry can meet, in order, with n tries left
RECURSIVE CallTraces(_)
CallTraces(n) ==
    IF n = 1 THEN {<<r>> : r \in Responses}
    ELSE {<<r>> : r \in {x \in Responses : EndsCall(x)}}
         \cup {<<r>> \o t : r \in {x \in Responses : ~EndsCall(x)},
                            t \in CallTraces(n - 1)}

\* generate_and_save_image lines 528-535
is_moderation_error(response) == response \in {"moderation", "safety"}

RtPrompts == {<<"a", "cat">>, <<"a", "gun">>}

ReplaceWord(w) ==
    CASE w = "blood" -> "red liquid"
      [] w = "weapon" -> "tool"
      [] w = "gun" -> "equipment"
      [] w = "knife" -> "cutting tool"
      [] w = "aggressive" -> "intense"
      [] w = "violent" -> "dynamic"
      [] OTHER -> w

sanitize_prompt_for_moderation(prompt) ==
    [i \in DOMAIN prompt |-> ReplaceWord(prompt[i])]

\* the requests of one call_api_with_retry, each with what came of it
RequestLog(index, model, prompt, trace) ==
    [k \in DOMAIN trace |->
       [index |-> index, model |-> model, prompt |-> prompt,
        response |-> trace[k]]]

\* generate_and_save_image: the requests sent and the value returned
generate_and_save_image(prompt, index, total_count, first, retry) ==
    LET model == select_model_for_image(index, total_count)[1]
        sent1 == RequestLog(index, model, prompt, first)
        last1 == first[Len(first)]
    IN  IF last1 = "ok" THEN [sent |-> sent1, saved |-> TRUE]
        ELSE IF is_moderation_error(last1)
        THEN [sent |-> sent1 \o
                       RequestLog(index, GPT_IMAGE_MODEL,
                                  sanitize_prompt_for_moderation(prompt),
                                  retry),
              saved |-> retry[Len(retry)] = "ok"]
        ELSE [sent |-> sent1, saved |-> FALSE]

AccountErrors == {"billing", "auth"}

RtInit ==
    /\ rtTotal \in 1..MaxGenItems
    /\ rtPc = "generate"
    /\ rtIndex = 1
    /\ rtSent = <<>>
    /\ rtResult = [i \in 1..rtTotal |-> "none"]
    /\ rtAccount = 0
    /\ rtExit = "none"
    /\ OldParked
    /\ ExtraParked
    /\ PrParked
    /\ VidParked
    /\ CkParked
    /\ LoopParked
    /\ SaveParked

\* main lines 671-690, for an image that does not exist yet
RtItem ==
    /\ rtExit = "none"
    /\ rtPc = "generate"
    /\ rtIndex <= rtTotal
    /\ \E prompt \in RtPrompts, first \in CallTraces(max_retries) :
       \E retry \in (IF is_moderation_error(first[Len(first)])
                     THEN CallTraces(max_retries) ELSE {<<>>}) :
         LET g == generate_and_save_image(prompt, rtIndex, rtTotal,
                                          first, retry)
         IN  /\ rtSent' = g.sent
             /\ rtResult' = [rtResult EXCEPT ![rtIndex] =
                               IF g.saved THEN "success" ELSE "failed"]
             /\ rtAccount' =
                  IF rtAccount = 0
                     /\ \E k \in DOMAIN g.sent :
                          g.sent[k].response \in AccountErrors
                  THEN rtIndex ELSE rtAccount
    /\ rtPc' = "sleep"
    /\ UNCHANGED <<rtTotal, rtIndex, rtExit, notRtVars>>

\* main line 691, and on to the next prompt
RtSleep ==
    /\ rtExit = "none"
    /\ rtPc = "sleep"
    /\ rtPc' = "generate"
    /\ rtIndex' = rtIndex + 1
    /\ rtSent' = <<>>
    /\ UNCHANGED <<rtTotal, rtResult, rtAccount, rtExit, notRtVars>>

\* main lines 693-741: the loop is over; error_occurred is still False
RtEnd ==
    /\ rtExit = "none"
    /\ rtPc = "generate"
    /\ rtIndex > rtTotal
    /\ rtExit' = "0"
    /\ UNCHANGED <<rtTotal, rtPc, rtIndex, rtSent, rtResult, rtAccount,
                   notRtVars>>

RtNext == RtItem \/ RtSleep \/ RtEnd

SpecRealtime == RtInit /\ [][RtNext]_vars

(***************************************************************************)
(* C11.  After a content-policy rejection of an item at most one further   *)
(* generation request is sent for that item; the item ends as success if   *)
(* that request succeeds and is given up if not; every other item is still *)
(* processed.                                                              *)
(***************************************************************************)
C11_OneSanitizedRequest ==
    /\ \A k \in DOMAIN rtSent :
         is_moderation_error(rtSent[k].response) => Len(rtSent) <= k + 1
    /\ (rtPc = "sleep"
        /\ \E k \in DOMAIN rtSent : is_moderation_error(rtSent[k].response))
         => (rtResult[rtIndex] = "success"
               <=> rtSent[Len(rtSent)].response = "ok")
    /\ rtExit # "none" => \A i \in 1..rtTotal : rtResult[i] # "none"

(***************************************************************************)
(* C12.  A request rejected for content policy is never retried as it is:  *)
(* every later request for the item carries a payload (model and prompt)   *)
(* different from the rejected one.                                        *)
(***************************************************************************)
C12_RejectedPayloadSentOnce ==
    \A j, k \in DOMAIN rtSent :
      (j < k /\ is_moderation_error(rtSent[j].response))
        => <<rtSent[k].model, rtSent[k].prompt>>
             # <<rtSent[j].model, rtSent[j].prompt>>

(***************************************************************************)
(* C13.  A generation call that fails with an account error (quota,        *)
(* billing, authentication) is not attempted again, no request is sent for *)
(* any later item, and the phase ends in failure.                          *)
(***************************************************************************)
C13_AccountErrorFatal ==
    /\ \A k \in DOMAIN rtSent :
         rtSent[k].response \in AccountErrors => k = Len(rtSent)
    /\ rtAccount # 0 =>
         \A k \in DOMAIN rtSent : rtSent[k].index = rtAccount
    /\ (rtAccount # 0 /\ rtExit # "none") => rtExit = "1"

(***************************************************************************)
(* The prompt (text) phase.  One step is one run of a script: the per-line *)
(* generator p1_claude_generate_prompts.py, the batch submitter            *)
(* p1_claude_batch_submit.py or the batch retriever.  The local files are  *)
(* the only checkpoint modelled; a record is its index and finale flag.    *)
(***************************************************************************)
\* check_existing_prompts: the number of lines of the file
check_existing_prompts(file) == Len(file)

\* lines 651-764: the records appended for the script lines from..to, in
\* order; a line of failed_lines leaves no record
RECURSIVE LineRecords(_, _, _)
LineRecords(from, to, failed_lines) ==
    IF from > to THEN <<>>
    ELSE (IF from \in failed_lines THEN <<>>
          ELSE <<[index |-> from, is_finale |-> FALSE]>>)
         \o LineRecords(from + 1, to, failed_lines)

\* generate_emotional_finale_scenes lines 580-600: last_index is the number
\* of lines of the file; block i of the two is appended if it parses
generate_emotional_finale_scenes(file, parsed) ==
    LET last_index == Len(file)
        block(i) == IF i \in parsed
                    THEN <<[index |-> last_index + i, is_finale |-> TRUE]>>
                    ELSE <<>>
    IN  file \o block(1) \o block(2)

\* the file a run of the phase leaves when nothing failed
CompleteFile ==
    generate_emotional_finale_scenes(LineRecords(1, prLines, {}), {1, 2})

\* the custom ids prompt_001.. of the lines in S, ascending
RECURSIVE PromptIds(_, _, _)
PromptIds(from, to, S) ==
    IF from > to THEN <<>>
    ELSE (IF from \in S THEN <<<<"prompt", ZeroPad(Decimal(from), 3)>>>>
          ELSE <<>>)
         \o PromptIds(from + 1, to, S)

PromptInit ==
    /\ prLines \in 1..MaxLines
    /\ prFile = <<>> /\ prList = <<>> /\ prBatch = "none"
    /\ prRuns = 0 /\ prLast = NoPromptRun
    /\ OldParked
    /\ ExtraParked
    /\ RtParked
    /\ VidParked
    /\ CkParked
    /\ LoopParked
    /\ SaveParked

\* p1_claude_generate_prompts.py main, run to its end: the loop over the
\* lines not yet counted as done, then the finale
PromptRun ==
    /\ prRuns < MaxPromptRuns
    /\ LET local_completed == check_existing_prompts(prFile)
           pending == (local_completed + 1)..prLines
       IN  \E failed_lines \in SUBSET pending, parsed \in SUBSET {1, 2} :
             /\ prFile' = generate_emotional_finale_scenes(
                            prFile \o LineRecords(local_completed + 1,
                                                  prLines, failed_lines),
                            parsed)
             /\ prLast' = [kind |-> "generate",
                           complete |-> prFile = CompleteFile,
                           calls |-> Cardinality(pending) + 1,
                           before |-> prFile]
    /\ prRuns' = prRuns + 1
    /\ UNCHANGED <<prLines, prList, prBatch, notPrVars>>

\* the same run killed inside the loop, after the line stop was handled
PromptRunKilled ==
    /\ prRuns < MaxPromptRuns
    /\ LET local_completed == check_existing_prompts(prFile)
           pending == (local_completed + 1)..prLines
       IN  \E stop \in pending, failed_lines \in SUBSET pending :
             /\ prFile' = prFile \o LineRecords(local_completed + 1, stop,
                                                failed_lines)
             /\ prLast' = [kind |-> "generate",
                           complete |-> prFile = CompleteFile,
                           calls |-> stop - local_completed,
                           before |-> prFile]
    /\ prRuns' = prRuns + 1
    /\ UNCHANGED <<prLines, prList, prBatch, notPrVars>>

\* p1_claude_batch_submit.py main: one request for every script line
PromptBatchSubmit ==
    /\ prRuns < MaxPromptRuns
    /\ prBatch' = "processing"
    /\ prLast' = [kind |-> "submit",
                  complete |-> prBatch = "completed"
                               /\ prList = PromptIds(1, prLines, 1..prLines),
                  calls |-> prLines,
                  before |-> prFile]
    /\ prRuns' = prRuns + 1
    /\ UNCHANGED <<prLines, prFile, prList, notPrVars>>

\* p1_claude_batch_retrieve.py retrieve_batch_results on the ended batch
PromptBatchRetrieve ==
    /\ prBatch = "processing"
    /\ \E succeeded \in SUBSET (1..prLines) :
         prList' = PromptIds(1, prLines, succeeded)
    /\ prBatch' = "completed"
    /\ prLast' = NoPromptRun
    /\ UNCHANGED <<prLines, prFile, prRuns, notPrVars>>

PromptNext ==
    PromptRun \/ PromptRunKilled \/ PromptBatchSubmit \/ PromptBatchRetrieve

SpecPrompt == PromptInit /\ [][PromptNext]_vars

(***************************************************************************)
(* C14.  A run of the prompt phase started when the phase is complete      *)
(* makes no external generation or submission request and leaves the       *)
(* prompt records unchanged.                                               *)
(***************************************************************************)
C14_RerunDoesNothing ==
    prLast.complete => (prLast.calls = 0 /\ prFile = prLast.before)

(***************************************************************************)
(* C15.  Index uniqueness: no two records of the prompt record file have   *)
(* the same index, after any runs, per-line failures, kills and resumes.   *)
(***************************************************************************)
C15_IndexUnique ==
    \A i, j \in DOMAIN prFile :
      prFile[i].index = prFile[j].index => i = j

(***************************************************************************)
(* The video phase, p2_5_hailuo_generate_videos.py.  One step is the start *)
(* of a run, one pass of the loop over the indices, the end of the run or  *)
(* a kill.  The checkpoint is saved after every change, so a kill leaves   *)
(* on disk what the last save wrote.                                       *)
(***************************************************************************)
\* load_checkpoint
load_checkpoint(exists, disk) == IF exists THEN disk ELSE EmptyCheckpoint

\* every index is handled, completed or not
SubmitsAlways(idx, completed_indices) == TRUE

\* lines 287-288: the index is handled only if the loaded checkpoint does
\* not list it as completed
NeedsVideo(idx, completed_indices) == idx \notin completed_indices

\* the checkpoint is removed whenever nothing is pending
DoneIgnoringFailures(fails, pending_tasks) == pending_tasks = <<>>

\* line 397: the checkpoint is removed when nothing failed in the run and
\* nothing is pending
CheckpointDone(fails, pending_tasks) == fails = 0 /\ pending_tasks = <<>>

\* a variant that leaves the file as it is
SaveNothing(disk, checkpoint_data) == disk

\* save_checkpoint lines 192-195: the file holds the dict that was passed
save_checkpoint(disk, checkpoint_data) == checkpoint_data

VideoInit ==
    /\ vTotal \in 1..MaxVideos
    /\ vExists = FALSE /\ vDisk = EmptyCheckpoint
    /\ vPc = "idle" /\ vIdx = 0 /\ vMem = EmptyCheckpoint
    /\ vStart = EmptyCheckpoint /\ vHadFile = FALSE /\ fail_count = 0
    /\ vNextTask = 1 /\ vSubmitted = {} /\ vPolled = {}
    /\ vStep = "submit" /\ vTask = 0 /\ vFiles = {} /\ vMade = {}
    /\ OldParked
    /\ ExtraParked
    /\ RtParked
    /\ PrParked
    /\ CkParked
    /\ LoopParked
    /\ SaveParked

\* main lines 269-280: a run starts and loads the checkpoint
VideoStart ==
    /\ vPc \in {"idle", "ended", "killed"}
    /\ vPc' = "loop"
    /\ vIdx' = 1
    /\ vMem' = load_checkpoint(vExists, vDisk)
    /\ vStart' = load_checkpoint(vExists, vDisk)
    /\ vHadFile' = vExists
    /\ fail_count' = 0
    /\ vSubmitted' = {} /\ vPolled' = {} /\ vMade' = {}
    /\ vStep' = "submit" /\ vTask' = 0
    /\ UNCHANGED <<vTotal, vExists, vDisk, vNextTask, vFiles, notVidVars>>

\* what poll_task_status and download_video can come to for a task
VideoOutcomes == {"generation_failed", "download_failed", "success"}

\* main lines 282-315: the skip test, then submit_video_task and what main
\* records after it.  task_id 0 stands for None; crash is a kill that
\* arrives when the call has returned and nothing is recorded yet
VideoSubmit ==
    /\ vPc = "loop" /\ vStep = "submit"
    /\ vIdx <= vTotal
    /\ IF ~NeedsVideo(vIdx, vStart.completed)
       THEN /\ vIdx' = vIdx + 1
            /\ UNCHANGED <<vExists, vDisk, vPc, vMem, fail_count, vNextTask,
                           vSubmitted, vStep, vTask>>
       ELSE \E task_id \in {0, vNextTask}, crash \in BOOLEAN :
            /\ task_id # 0 => vNextTask <= MaxTasks
            /\ vSubmitted' = vSubmitted \cup {vIdx}
            /\ vNextTask' = IF task_id = 0 THEN vNextTask ELSE vNextTask + 1
            /\ IF crash
               THEN /\ vPc' = "killed"
                    /\ UNCHANGED <<vExists, vDisk, vMem, fail_count, vIdx,
                                   vStep, vTask>>
               ELSE /\ vMem' = IF task_id = 0
                               THEN [vMem EXCEPT !.failed = @ \cup {vIdx}]
                               ELSE [vMem EXCEPT !.pending_tasks =
                                       Put(@, vIdx, task_id)]
                    /\ vDisk' = save_checkpoint(vDisk, vMem')
                    /\ vExists' = TRUE
                    /\ fail_count' = IF task_id = 0 THEN fail_count + 1
                                     ELSE fail_count
                    /\ vIdx' = IF task_id = 0 THEN vIdx + 1 ELSE vIdx
                    /\ vStep' = IF task_id = 0 THEN "submit" ELSE "poll"
                    /\ vTask' = task_id
                    /\ UNCHANGED vPc
    /\ UNCHANGED <<vTotal, vStart, vHadFile, vPolled, vFiles, vMade,
                   notVidVars>>

\* main lines 317-368: poll_task_status, download_video and what main
\* records after them; download_video writes NNN.mp4 only when it succeeds
VideoFinish ==
    /\ vPc = "loop" /\ vStep = "poll"
    /\ \E outcome \in VideoOutcomes, crash \in BOOLEAN :
         /\ vPolled' = vPolled \cup {vTask}
         /\ vFiles' = IF outcome = "success" THEN vFiles \cup {vIdx}
                      ELSE vFiles
         /\ vMade' = IF outcome = "success" THEN vMade \cup {vIdx} ELSE vMade
         /\ IF crash
            THEN /\ vPc' = "killed"
                 /\ UNCHANGED <<vExists, vDisk, vMem, fail_count, vIdx, vStep,
                                vTask>>
            ELSE /\ LET popped == [vMem EXCEPT !.pending_tasks =
                                     Remove(@, vIdx)]
                    IN  vMem' = IF outcome = "success"
                                THEN [popped EXCEPT !.completed = @ \cup {vIdx}]
                                ELSE [popped EXCEPT !.failed = @ \cup {vIdx}]
                 /\ vDisk' = save_checkpoint(vDisk, vMem')
                 /\ vExists' = TRUE
                 /\ fail_count' = IF outcome = "success" THEN fail_count
                                  ELSE fail_count + 1
                 /\ vIdx' = vIdx + 1
                 /\ vStep' = "submit" /\ vTask' = 0
                 /\ UNCHANGED vPc
    /\ UNCHANGED <<vTotal, vStart, vHadFile, vNextTask, vSubmitted,
                   notVidVars>>

\* main lines 370-405: the log is written and the checkpoint removed or kept
VideoEnd ==
    /\ vPc = "loop"
    /\ vIdx > vTotal
    /\ vPc' = "ended"
    /\ vExists' = IF CheckpointDone(fail_count, vMem.pending_tasks)
                  THEN FALSE ELSE vExists
    /\ UNCHANGED <<vTotal, vDisk, vIdx, vMem, vStart, vHadFile, fail_count,
                   vNextTask, vSubmitted, vPolled, vStep, vTask, vFiles,
                   vMade, notVidVars>>

\* the process is killed while it waits on an external call
VideoKill ==
    /\ vPc = "loop"
    /\ vIdx <= vTotal
    /\ vPc' = "killed"
    /\ UNCHANGED <<vTotal, vExists, vDisk, vIdx, vMem, vStart, vHadFile,
                   fail_count, vNextTask, vSubmitted, vPolled, vStep, vTask,
                   vFiles, vMade, notVidVars>>

VideoNext ==
    VideoStart \/ VideoSubmit \/ VideoFinish \/ VideoEnd \/ VideoKill

SpecVideo == VideoInit /\ [][VideoNext]_vars

(***************************************************************************)
(* C16.  Video resume rule: a run makes no submission for an index the     *)
(* checkpoint it loaded lists as completed; for every index that was in    *)
(* pending_tasks and not completed it sends a fresh submission when the    *)
(* loop comes to it, and it never polls or downloads the old task id.      *)
(***************************************************************************)
C16_ResumeSubmitsFresh ==
    /\ vSubmitted \cap vStart.completed = {}
    /\ \A i \in DOMAIN vStart.pending_tasks :
         /\ vStart.pending_tasks[i] \notin vPolled
         /\ (i \notin vStart.completed /\ (i < vIdx \/ vPc = "ended"))
              => i \in vSubmitted

\* a run that resumed with completed and pending indices has come to its end
C16_Witness ==
    /\ vPc = "ended"
    /\ vStart.completed # {}
    /\ vStart.pending_tasks # <<>>
    /\ vPolled # {}

(***************************************************************************)
(* C17.  The video checkpoint file is removed at the end of a run only if  *)
(* every index 1..total is completed and pending_tasks is empty; after any *)
(* other end of a run, a kill included, the file it had is still there.    *)
(***************************************************************************)
C17_CheckpointKeptUnlessDone ==
    /\ (vPc = "ended" /\ ~vExists)
         => /\ \A i \in 1..vTotal : i \in vMem.completed
            /\ vMem.pending_tasks = <<>>
    /\ (vPc \in {"loop", "killed"} /\ vHadFile) => vExists

\* a resumed run completed what was left and removed the checkpoint
C17_Witness ==
    /\ vPc = "ended" /\ ~vExists /\ vHadFile
    /\ vStart.failed # {}
    /\ vTotal >= 2

(***************************************************************************)
(* C18.  Retrieval for a job the provider reports as completed that has    *)
(* no output reference ends in an error outcome: the retrieve phase        *)
(* reports failure (a return code other than 0), so that the chained flow  *)
(* does not go on.                                                         *)
(***************************************************************************)
C18_NoOutputIsFailure ==
    \A x \in pollSeen :
      (x.script = "p2" /\ x.cause = "completed" /\ ~x.output)
        => (x.returncode # "0" /\ ~x.ok)

(***************************************************************************)
(* C19.  Once the provider has reported failed, expired or cancelled for a *)
(* job (provider[b] holds the status its last query returned), the watcher *)
(* makes no further status query for that job and never runs its chained   *)
(* flow, in any later cycle.  A registration always carries a new batch    *)
(* id, so a job that is submitted again is another job.                    *)
(***************************************************************************)
C19_FailedJobLeftAlone ==
    [][/\ (/\ cpc = "check" /\ todo # <<>>
           /\ cpc' = "check" /\ todo' = Tail(todo)
           /\ mem[Head(todo)].status \notin SkipStatuses)
          => provider[mem[Head(todo)].batch_id] \notin FailedStatuses
       /\ (/\ cpc = "post" /\ completed # <<>>
           /\ cpc' = "post" /\ completed' = Tail(completed))
          => provider[mem[Head(completed)].batch_id] \notin FailedStatuses]_vars

(***************************************************************************)
(* Checkpoint resolution against the remote store (gdrive_checkpoint.py    *)
(* and the check_existing_images of the two image scripts).  A call        *)
(* returns a value or raises; faults are the remote accesses that raised   *)
(* on the way, caught or not.                                              *)
(***************************************************************************)
CkNames == {FileName(i) : i \in 1..MaxCkImages}

\* a line of prompts_data.jsonl: a record with both fields, a JSON object
\* without them, text that is not JSON, or nothing but white space
LineKinds == {"record", "no_field", "not_json", "blank"}

\* the remote accesses of a resolution, by the place where they are made
Accesses ==
    {"credentials", "refresh", "folder", "list", "media", "dl_list", "dl_media"}

AccessesOf(caller) ==
    IF caller = "prompts"
    THEN {"credentials", "refresh", "folder", "list", "media"}
    ELSE IF caller = "main"
    THEN {"credentials", "refresh", "folder", "list", "media"}
    ELSE IF caller = "submit"
    THEN {"credentials", "refresh", "folder", "list"}
    ELSE {"credentials", "refresh", "folder", "list", "dl_list", "dl_media"}

Ret(v) == [raised |-> FALSE, value |-> v, faults |-> {}]

Throw(access) == [raised |-> TRUE, value |-> "exception", faults |-> {access}]

\* try: r / except Exception: return default
Catch(r, default) ==
    IF r.raised THEN [raised |-> FALSE, value |-> default, faults |-> r.faults]
    ELSE r

\* r is evaluated after first has returned
After(first, r) == [r EXCEPT !.faults = @ \cup first.faults]

\* authenticate_gdrive: None without a usable token, the exception of
\* from_authorized_user_file let through, the one of refresh caught
authenticate_gdrive(token, raises) ==
    IF token = "missing" THEN Ret("none")
    ELSE IF "credentials" \in raises THEN Throw("credentials")
    ELSE IF token = "expired"
    THEN Catch(IF "refresh" \in raises THEN Throw("refresh") ELSE Ret("creds"),
               "none")
    ELSE Ret("creds")

find_project_folder_on_drive(drive, raises) ==
    Catch(IF "folder" \in raises THEN Throw("folder")
          ELSE Ret(IF drive.folder THEN "id" ELSE "none"),
          "none")

RECURSIVE CountRecords(_)
CountRecords(lines) ==
    IF lines = <<>> THEN 0
    ELSE (IF Head(lines) = "record" THEN 1 ELSE 0) + CountRecords(Tail(lines))

get_existing_prompts_count(drive, raises) ==
    Catch(IF "list" \in raises THEN Throw("list")
          ELSE IF ~drive.has_prompts THEN Ret(0)
          ELSE IF "media" \in raises THEN Throw("media")
          ELSE Ret(CountRecords(drive.lines)),
          0)

get_existing_images_list(drive, raises) ==
    Catch(IF "list" \in raises THEN Throw("list") ELSE Ret(drive.images), {})

\* the empty result of a checkpoint type: the count 0 or the empty list
CkEmpty(checkpoint_type) == IF checkpoint_type = "prompts" THEN 0 ELSE {}

check_drive_checkpoint(checkpoint_type, token, drive, raises) ==
    LET creds == authenticate_gdrive(token, raises)
        folder == After(creds, find_project_folder_on_drive(drive, raises))
        empty == CkEmpty(checkpoint_type)
    IN Catch(IF creds.raised THEN creds
             ELSE IF creds.value = "none" THEN After(creds, Ret(empty))
             ELSE IF folder.value = "none" THEN After(folder, Ret(empty))
             ELSE IF checkpoint_type = "prompts"
             THEN After(folder, get_existing_prompts_count(drive, raises))
             ELSE After(folder, get_existing_images_list(drive, raises)),
             empty)

\* p2_gpt_generate_images.download_images_from_drive: the local directory
\* after it, with the faults it met (it returns a count and never raises)
download_images_from_drive(local, image_names, token, drive, raises) ==
    LET creds == authenticate_gdrive(token, raises)
        folder == After(creds, find_project_folder_on_drive(drive, raises))
        wanted == {n \in image_names : n \notin local /\ n \in drive.images}
    IN IF creds.raised \/ creds.value = "none"
       THEN [local |-> local, faults |-> creds.faults]
       ELSE IF folder.value = "none" \/ drive.images = {}
       THEN [local |-> local, faults |-> folder.faults]
       ELSE IF "dl_list" \in raises
       THEN [local |-> local, faults |-> folder.faults \cup {"dl_list"}]
       ELSE IF "dl_media" \in raises /\ wanted # {}
       THEN [local |-> local, faults |-> folder.faults \cup {"dl_media"}]
       ELSE [local |-> local \cup wanted, faults |-> folder.faults]

\* the lines check_existing_prompts counts: those with more than white space
NonBlank(lines) == SelectSeq(lines, LAMBDA l : l # "blank")

\* the remote tier is asked whatever the local tier holds
GoesRemoteAlways(local_done) == TRUE

\* the remote tier is asked only when the local tier holds nothing
\* (`if existing_images: return`, `if local_completed == 0`)
GoesRemote(local_done) == local_done = 0

\* p1_claude_generate_prompts.download_prompts_from_drive: True after the
\* file of the Drive has replaced the local one, False on every other way
\* out, an exception included
download_prompts_from_drive(lines, parent, token, drive, raises) ==
    LET creds == authenticate_gdrive(token, raises)
        folder == After(creds, find_project_folder_on_drive(drive, raises))
        no(faults) == [ok |-> FALSE, lines |-> lines, faults |-> faults]
    IN IF parent = "none" THEN no({})
       ELSE IF creds.raised \/ creds.value = "none" THEN no(creds.faults)
       ELSE IF folder.value = "none" THEN no(folder.faults)
       ELSE IF "list" \in raises THEN no(folder.faults \cup {"list"})
       ELSE IF ~drive.has_prompts THEN no(folder.faults)
       ELSE IF "media" \in raises THEN no(folder.faults \cup {"media"})
       ELSE [ok |-> TRUE, lines |-> drive.lines, faults |-> folder.faults]

ResolveInit ==
    /\ ckCaller \in {"prompts", "submit", "generate", "main"}
    /\ ckParent \in {"id", "none"}
    /\ ckToken \in {"valid", "expired", "missing"}
    /\ ckRaises \in SUBSET AccessesOf(ckCaller)
    /\ IF ckCaller \in {"prompts", "main"}
       THEN /\ ckLocal = {}
            /\ ckCaller = "prompts" => (ckParent = "id" /\ ckLines = <<>>)
            /\ ckCaller = "main"
                 => \E n \in 0..MaxCkLines : ckLines \in [1..n -> LineKinds]
            /\ \E folder, has_prompts \in BOOLEAN,
                  n \in 0..(IF ckCaller = "main" THEN MaxCkDriveLines
                            ELSE MaxCkLines) :
                 \E lines \in [1..n -> LineKinds] :
                   /\ has_prompts => folder
                   /\ ~has_prompts => n = 0
                   /\ ckDrive = [folder |-> folder, images |-> {},
                                 has_prompts |-> has_prompts, lines |-> lines]
       ELSE /\ ckLocal \in SUBSET CkNames
            /\ ckLines = <<>>
            /\ \E folder \in BOOLEAN, images \in SUBSET CkNames :
                 /\ images # {} => folder
                 /\ ckDrive = [folder |-> folder, images |-> images,
                               has_prompts |-> FALSE, lines |-> <<>>]
    /\ ckBefore = [images |-> ckLocal, lines |-> ckLines]
    /\ ckRemote = FALSE
    /\ ckPc = "start"
    /\ ckResult = NoResult
    /\ OldParked
    /\ ExtraParked
    /\ RtParked
    /\ PrParked
    /\ VidParked
    /\ LoopParked
    /\ SaveParked

\* check_drive_checkpoint(project_name, parent_folder_id, "prompts")
ResolvePrompts ==
    /\ ckPc = "start" /\ ckCaller = "prompts"
    /\ ckResult' = check_drive_checkpoint("prompts", ckToken, ckDrive, ckRaises)
    /\ ckRemote' = TRUE
    /\ ckPc' = "done"
    /\ UNCHANGED <<ckCaller, ckLocal, ckLines, ckBefore, ckParent, ckToken,
                   ckDrive, ckRaises, notCkVars>>

\* p2_gpt_batch_submit.check_existing_images
ResolveSubmit ==
    /\ ckPc = "start" /\ ckCaller = "submit"
    /\ LET remote == GoesRemote(Cardinality(ckLocal)) /\ ckParent # "none"
           listing == IF ~remote THEN Ret({})
                      ELSE check_drive_checkpoint("images", ckToken, ckDrive,
                                                  ckRaises)
       IN /\ ckResult' = Catch(After(listing,
                                     Ret(check_existing_images(ckLocal,
                                                               listing.value,
                                                               TRUE))),
                               {})
          /\ ckRemote' = remote
    /\ ckPc' = "done"
    /\ UNCHANGED <<ckCaller, ckLocal, ckLines, ckBefore, ckParent, ckToken,
                   ckDrive, ckRaises, notCkVars>>

\* p2_gpt_generate_images.check_existing_images
ResolveGenerate ==
    /\ ckPc = "start" /\ ckCaller = "generate"
    /\ LET remote == GoesRemote(Cardinality(ckLocal)) /\ ckParent # "none"
           listing == IF ~remote THEN Ret({})
                      ELSE check_drive_checkpoint("images", ckToken, ckDrive,
                                                  ckRaises)
           existing_images ==
               generate_check_existing_images(ckLocal, listing.value, TRUE)
           dl == IF ckLocal = {} /\ listing.value # {}
                 THEN download_images_from_drive(ckLocal, listing.value,
                                                 ckToken, ckDrive, ckRaises)
                 ELSE [local |-> ckLocal, faults |-> {}]
       IN /\ ckResult' = Catch([raised |-> FALSE, value |-> existing_images,
                                faults |-> listing.faults \cup dl.faults],
                               {})
          /\ ckLocal' = dl.local
          /\ ckRemote' = remote
    /\ ckPc' = "done"
    /\ UNCHANGED <<ckCaller, ckLines, ckBefore, ckParent, ckToken, ckDrive,
                   ckRaises, notCkVars>>

\* p1_claude_generate_prompts.main lines 876-885: the local file first, the
\* copy on the Drive when the local count is 0
ResolveMain ==
    /\ ckPc = "start" /\ ckCaller = "main"
    /\ LET local_completed == check_existing_prompts(NonBlank(ckLines))
           remote == GoesRemote(local_completed)
           dl == IF remote
                 THEN download_prompts_from_drive(ckLines, ckParent, ckToken,
                                                  ckDrive, ckRaises)
                 ELSE [ok |-> FALSE, lines |-> ckLines, faults |-> {}]
       IN /\ ckLines' = dl.lines
          /\ ckRemote' = remote
          /\ ckResult' = [raised |-> FALSE,
                          value |-> IF dl.ok
                                    THEN check_existing_prompts(NonBlank(dl.lines))
                                    ELSE local_completed,
                          faults |-> dl.faults]
    /\ ckPc' = "done"
    /\ UNCHANGED <<ckCaller, ckLocal, ckBefore, ckParent, ckToken, ckDrive,
                   ckRaises, notCkVars>>

ResolveNext ==
    ResolvePrompts \/ ResolveSubmit \/ ResolveGenerate \/ ResolveMain

SpecResolve == ResolveInit /\ [][ResolveNext]_vars

(***************************************************************************)
(* C20.  When a remote-store access has raised during a checkpoint         *)
(* resolution (authentication, folder lookup, listing or download), the    *)
(* resolution does not raise and returns the empty result: the count 0     *)
(* for prompts, the empty set for images.                                  *)
(***************************************************************************)
C20_RaiseMeansEmpty ==
    (ckPc = "done" /\ ckResult.faults # {})
      => /\ ~ckResult.raised
         /\ ckResult.value = CkEmpty(IF ckCaller \in {"prompts", "main"}
                                     THEN "prompts" ELSE "images")

(***************************************************************************)
(* C21.  An entry whose state is post_flow_failed or post_flow_started is  *)
(* left alone by the watcher: the status loop steps over it without a      *)
(* query (a query would replace the state held in memory), and its         *)
(* persisted state stays as it is in every step that registers no batch.   *)
(***************************************************************************)
C21_HandledLeftAlone ==
    [][/\ (/\ cpc = "check" /\ todo # <<>>
           /\ cpc' = "check" /\ todo' = Tail(todo)
           /\ mem[Head(todo)].status \in {"post_flow_failed",
                                          "post_flow_started"})
          => mem' = mem
       /\ \A p \in DOMAIN registry :
            (/\ registry[p].status \in {"post_flow_failed", "post_flow_started"}
             /\ Created' = Created)
              => (p \in DOMAIN registry' /\ registry'[p] = registry[p])]_vars

(***************************************************************************)
(* C22.  At every point of a watcher cycle at most one entry held in       *)
(* memory differs from the persisted entry of the same job: the state an   *)
(* entry got from its status check is saved before the next entry is       *)
(* checked.                                                                *)
(***************************************************************************)
C22_AtMostOneUnpersisted ==
    cpc = "check" =>
      Cardinality({p \in DOMAIN mem \cap DOMAIN registry :
                     /\ registry[p].batch_id = mem[p].batch_id
                     /\ registry[p] # mem[p]}) <= 1

(***************************************************************************)
(* C23.  When the status query of an entry raises (apiErrors counts the    *)
(* queries that raised), the status loop adds exactly one to the entry's   *)
(* retry_count and leaves its state as it was before the query; the entry  *)
(* the cycle then saves is the one held in memory.                         *)
(***************************************************************************)
C23_ErrorKeepsState ==
    [][apiErrors' = apiErrors + 1
         => LET p == Head(todo) IN
            /\ mem'[p].retry_count = mem[p].retry_count + 1
            /\ mem'[p].status = mem[p].status]_vars

(***************************************************************************)
(* C24.  A blocking poll ends only on a terminal status of the provider    *)
(* or on the timeout: no run of a retriever ends because a single status   *)
(* query raised.                                                           *)
(***************************************************************************)
C24_QueryErrorKeepsPolling ==
    \A x \in pollSeen : x.cause \in PollTerminal(x.script) \cup {"timeout"}

\* crawler_loop lines 273-279: the status loop queries the provider for
\* batch_id (the entry it visits is not in a skipped state)
QueryOf(batch_id) ==
    /\ cpc = "check" /\ todo # <<>>
    /\ cpc' = "check" /\ todo' = Tail(todo)
    /\ mem[Head(todo)].batch_id = batch_id
    /\ mem[Head(todo)].status \notin SkipStatuses

(***************************************************************************)
(* C25.  The watcher bounds every job by a max_wait: a job that never      *)
(* reaches a terminal state at the provider is, from some cycle on, polled *)
(* no more.                                                                *)
(***************************************************************************)
C25_WatcherGivesUp ==
    \A b \in BatchIds :
      (<>[](provider[b] \in OutstandingStatuses)) => <>[][~QueryOf(b)]_vars

(***************************************************************************)
(* Control flow of crawler_loop: the body of the while loop inside its     *)
(* try, the two except clauses, and the exceptions the statements of the   *)
(* body can raise.                                                         *)
(***************************************************************************)
\* the positions of the body: load_batch_status, the status loop, the save,
\* the chained flows, the sleep that ends the cycle
BodyPositions == {"load", "check", "save", "post", "sleep"}

\* what the statement at a position can raise, the interrupt apart:
\* open/json.load, project_info["batch_id"], open/json.dump,
\* update_current_project and unregister_batch
RaisedAt(pc) ==
    IF pc = "load" THEN {"JSONDecodeError", "OSError"}
    ELSE IF pc = "check" THEN {"KeyError"}
    ELSE IF pc = "save" THEN {"OSError", "TypeError"}
    ELSE IF pc = "post" THEN {"KeyError", "OSError", "JSONDecodeError"}
    ELSE {}

\* the classes derived from Exception (KeyboardInterrupt derives from
\* BaseException only)
ExceptionClasses == {"JSONDecodeError", "OSError", "KeyError", "TypeError"}

\* the second clause catches nothing but OSError
CaughtIfOSError(exc) == exc = "OSError"

\* line 334: except Exception
CaughtByExceptException(exc) == exc \in ExceptionClasses

\* where an exception raised at a position of the loop takes it: break on
\* the interrupt (line 330), the cooldown (lines 334-338), or out of the
\* function when no clause matches or the handler itself is interrupted
Dispatch(pc, exc) ==
    IF pc \in BodyPositions /\ exc = "KeyboardInterrupt" THEN "ended"
    ELSE IF pc \in BodyPositions /\ CaughtByExceptException(exc) THEN "cooldown"
    ELSE "ended"

LoopInit ==
    /\ lpPc = "load" /\ lpTodo = 0 /\ lpCompleted = 0
    /\ lpLast = "none" /\ lpRaised = 0 /\ lpEnd = "none"
    /\ OldParked
    /\ ExtraParked
    /\ RtParked
    /\ PrParked
    /\ VidParked
    /\ CkParked
    /\ SaveParked

\* lines 256-266: the registry is loaded; an empty one sends to the sleep
LoopLoad ==
    /\ lpPc = "load"
    /\ \E n \in 0..MaxEntries :
         /\ lpTodo' = n
         /\ lpPc' = IF n = 0 THEN "sleep" ELSE "check"
    /\ lpCompleted' = 0
    /\ UNCHANGED <<lpLast, lpRaised, lpEnd, notLoopVars>>

\* lines 268-301: one entry of the status loop
LoopCheck ==
    /\ lpPc = "check" /\ lpTodo > 0
    /\ lpTodo' = lpTodo - 1
    /\ \E is_completed \in BOOLEAN :
         lpCompleted' = IF is_completed THEN lpCompleted + 1 ELSE lpCompleted
    /\ lpPc' = IF lpTodo = 1 THEN "save" ELSE "check"
    /\ UNCHANGED <<lpLast, lpRaised, lpEnd, notLoopVars>>

\* line 304
LoopSave ==
    /\ lpPc = "save"
    /\ lpPc' = IF lpCompleted > 0 THEN "post" ELSE "sleep"
    /\ UNCHANGED <<lpTodo, lpCompleted, lpLast, lpRaised, lpEnd, notLoopVars>>

\* lines 307-324: the chained flow of one completed project
LoopPostFlow ==
    /\ lpPc = "post" /\ lpCompleted > 0
    /\ lpCompleted' = lpCompleted - 1
    /\ lpPc' = IF lpCompleted = 1 THEN "sleep" ELSE "post"
    /\ UNCHANGED <<lpTodo, lpLast, lpRaised, lpEnd, notLoopVars>>

\* lines 261 and 328, and line 338 after an exception: the sleep is over,
\* the while loop starts its next pass
LoopSleep ==
    /\ lpPc \in {"sleep", "cooldown"}
    /\ lpPc' = "load"
    /\ lpTodo' = 0 /\ lpCompleted' = 0
    /\ UNCHANGED <<lpLast, lpRaised, lpEnd, notLoopVars>>

\* a statement of the body raises, or the interrupt arrives (in the body,
\* or in the sleep of the handler)
LoopRaise ==
    /\ lpPc \in BodyPositions \cup {"cooldown"}
    /\ lpRaised < MaxRaises
    /\ \E exc \in RaisedAt(lpPc) \cup {"KeyboardInterrupt"} :
         /\ lpLast' = exc
         /\ lpPc' = Dispatch(lpPc, exc)
         /\ lpEnd' = IF Dispatch(lpPc, exc) = "ended" THEN exc ELSE lpEnd
    /\ lpRaised' = lpRaised + 1
    /\ UNCHANGED <<lpTodo, lpCompleted, notLoopVars>>

LoopNext ==
    \/ LoopLoad
    \/ LoopCheck
    \/ LoopSave
    \/ LoopPostFlow
    \/ LoopSleep
    \/ LoopRaise

SpecLoop == LoopInit /\ [][LoopNext]_vars

(***************************************************************************)
(* C26.  The watcher loop is left on the interrupt only: an exception      *)
(* raised in the cycle body that is not the interrupt takes the loop to    *)
(* the cooldown, from where the next cycle starts.                         *)
(***************************************************************************)
C26_OnlyInterruptEndsLoop ==
    /\ lpPc = "ended" => lpEnd = "KeyboardInterrupt"
    /\ (lpLast \in ExceptionClasses /\ lpPc \notin {"off", "ended"})
         => lpEnd = "none"

\* an exception was caught in the body and a later cycle has reached its
\* chained flows
C26_Witness ==
    /\ lpPc = "post" /\ lpLast = "KeyError" /\ lpRaised >= 2

(***************************************************************************)
(* The registry file under save_batch_status and load_batch_status.  A     *)
(* document maps the registered projects to their state; json.dump writes  *)
(* it to the file chunk by chunk: the opening brace, one chunk per entry,  *)
(* the closing brace.                                                      *)
(***************************************************************************)
SaveStatuses == {"validating", "completed"}

SaveDocs == UNION {[S -> SaveStatuses] : S \in SUBSET Projects}

\* the entries of a document in the order json.dump writes them
EntryChunks(doc) ==
    (IF "alpha" \in DOMAIN doc THEN <<(<<"alpha", doc["alpha"]>>)>> ELSE <<>>)
      \o (IF "beta" \in DOMAIN doc THEN <<(<<"beta", doc["beta"]>>)>> ELSE <<>>)

\* json.dump(status_data, f): the chunks it writes, in order
Serialize(doc) == <<"{">> \o EntryChunks(doc) \o <<"}">>

\* json.load accepts the file: it holds a whole document
Readable(file) ==
    /\ Len(file) >= 2
    /\ file[1] = "{"
    /\ file[Len(file)] = "}"

\* json.load(f) of a file that holds a whole document
ParseDoc(file) ==
    LET entries == {file[i] : i \in 2..(Len(file) - 1)} IN
    [p \in {e[1] : e \in entries} |->
       (CHOOSE e \in entries : e[1] = p)[2]]

\* load_batch_status: the document, or the JSONDecodeError of json.load
load_batch_status(file) ==
    IF Readable(file) THEN [ok |-> TRUE, doc |-> ParseDoc(file)]
    ELSE [ok |-> FALSE, doc |-> <<>>]

SaveInit ==
    /\ svPrev \in SaveDocs
    /\ svMem = svPrev
    /\ svFile = Serialize(svPrev)
    /\ svPc = "idle"
    /\ svLoaded = [ok |-> TRUE, doc |-> svPrev]
    /\ OldParked
    /\ ExtraParked
    /\ RtParked
    /\ PrParked
    /\ VidParked
    /\ CkParked
    /\ LoopParked

\* load_batch_status, by the watcher or by register_batch
LoadStatus ==
    /\ svPc = "idle"
    /\ svLoaded' = load_batch_status(svFile)
    /\ UNCHANGED <<svFile, svPrev, svMem, svPc, notSaveVars>>

\* save_batch_status line 71: open(BATCH_STATUS_FILE, "w") empties the
\* file; the caller has loaded the document before
SaveOpen ==
    /\ svPc = "idle"
    /\ Readable(svFile)
    /\ \E doc \in SaveDocs :
         /\ svMem' = doc
         /\ svPrev' = ParseDoc(svFile)
    /\ svFile' = <<>>
    /\ svPc' = "writing"
    /\ UNCHANGED <<svLoaded, notSaveVars>>

\* save_batch_status line 72: json.dump writes the next chunk
SaveWrite ==
    /\ svPc = "writing"
    /\ Len(svFile) < Len(Serialize(svMem))
    /\ svFile' = Append(svFile, Serialize(svMem)[Len(svFile) + 1])
    /\ UNCHANGED <<svPrev, svMem, svPc, svLoaded, notSaveVars>>

\* the with block is left after the last chunk
SaveClose ==
    /\ svPc = "writing"
    /\ svFile = Serialize(svMem)
    /\ svPc' = "idle"
    /\ UNCHANGED <<svFile, svPrev, svMem, svLoaded, notSaveVars>>

\* KeyboardInterrupt or a kill while json.dump is writing: the file is
\* closed, or dropped, with what has been written so far
SaveInterrupt ==
    /\ svPc = "writing"
    /\ svPc' = "idle"
    /\ UNCHANGED <<svFile, svPrev, svMem, svLoaded, notSaveVars>>

SaveNext ==
    \/ LoadStatus
    \/ SaveOpen
    \/ SaveWrite
    \/ SaveClose
    \/ SaveInterrupt

SpecSave == SaveInit /\ [][SaveNext]_vars

(***************************************************************************)
(* C27.  Whenever no write of the registry file is in progress, after an   *)
(* interrupt or a kill during a write included, the file holds the whole   *)
(* previous document or the whole new one, and every load succeeds.        *)
(***************************************************************************)
C27_RegistryNeverPartial ==
    /\ svPc = "idle" => /\ Readable(svFile)
                        /\ ParseDoc(svFile) \in {svPrev, svMem}
    /\ svLoaded.ok

(***************************************************************************)
(* C28.  Every image name a checkpoint resolution returns as done is in    *)
(* the local image directory when the resolution returns (names found in   *)
(* the remote tier only have been downloaded).                             *)
(***************************************************************************)
C28_DoneImagesAreLocal ==
    (ckPc = "done" /\ ckCaller \in {"submit", "generate"})
      => ckResult.value \subseteq ckLocal

C30_CountsValidRecords ==
    ckPc = "done" =>
      /\ ckCaller = "main" => ckResult.value = CountRecords(ckLines)
      /\ (/\ ckCaller = "prompts" /\ ckResult.faults = {}
          /\ ckToken # "missing" /\ ckDrive.has_prompts)
           => ckResult.value = CountRecords(ckDrive.lines)

(***************************************************************************)
(* Retrieval of one ended batch whose result records the provider returns  *)
(* in any order: the image retriever (p2_gpt_batch_retrieve.py) and the    *)
(* prompt retriever (p1_claude_batch_retrieve.py).  Request i of the batch *)
(* carries the custom id of index i and has exactly one result record.     *)
(***************************************************************************)
\* the content the provider produced for request index
OrdContents == <<"A", "B", "C", "D", "E">>

\* the result record of request index: create_batch_file line 201 and
\* create_batch_requests line 75 make the custom ids
OrdRecord(kind, index, ok) ==
    IF kind = "image"
    THEN [custom_id |-> CustomId(index),
          status_code |-> IF ok THEN 200 ELSE 400,
          b64_json |-> OrdContents[index]]
    ELSE [custom_id |-> <<"prompt", ZeroPad(Decimal(index), 3)>>,
          type |-> IF ok THEN "succeeded" ELSE "errored",
          content |-> OrdContents[index]]

\* a < b on strings of digits, as Python compares str
RECURSIVE StrLess(_, _)
StrLess(a, b) ==
    IF a = <<>> THEN b # <<>>
    ELSE IF b = <<>> THEN FALSE
    ELSE IF a[1] # b[1] THEN a[1] < b[1]
    ELSE StrLess(Tail(a), Tail(b))

\* sorted(results, key=lambda x: x["custom_id"]), line 57: stable, ascending
RECURSIVE sorted(_)
sorted(results) ==
    IF results = <<>> THEN <<>>
    ELSE LET rest == sorted(SubSeq(results, 1, Len(results) - 1))
             last == results[Len(results)]
             before == SelectSeq(rest, LAMBDA r :
                           ~StrLess(last.custom_id[2], r.custom_id[2]))
             after == SelectSeq(rest, LAMBDA r :
                           StrLess(last.custom_id[2], r.custom_id[2]))
         IN  before \o <<last>> \o after

\* p1_claude_batch_retrieve.retrieve_batch_results lines 39-58: the lines of
\* prompts_list.txt, one for every succeeded result, sorted by custom id
claude_retrieve_batch_results(results) ==
    LET succeeded == SelectSeq(results, LAMBDA r : r.type = "succeeded")
        ordered == sorted(succeeded)
    IN  [k \in DOMAIN ordered |-> ordered[k].content]

OrderInit ==
    /\ ordKind \in {"image", "prompt"}
    /\ ordRecords \in
         UNION {{[k \in 1..n |-> OrdRecord(ordKind, order[k], order[k] \in ok)] :
                   order \in Orders(1..n), ok \in SUBSET (1..n)} :
                n \in 1..MaxOrdItems}
    /\ ordPc = "start" /\ ordOut = <<>>
    /\ BaseParked
    /\ JobParked /\ BadParked /\ SkipParked /\ MotParked

\* one run of the retriever on the ended batch, into an empty directory
OrderRetrieve ==
    /\ ordPc = "start"
    /\ ordOut' = IF ordKind = "image"
                 THEN retrieve_batch_results(TRUE, ordRecords, <<>>).disk
                 ELSE claude_retrieve_batch_results(ordRecords)
    /\ ordPc' = "done"
    /\ UNCHANGED <<ordKind, ordRecords, baseVars, jobVars, badVars, skipVars, motVars>>

OrderNext == OrderRetrieve

SpecOrder == OrderInit /\ [][OrderNext]_vars

(***************************************************************************)
(* C31.  For every order of the result records the retrieval stores the    *)
(* same artifacts as for the ascending order, and the artifact stored for  *)
(* index i (the file named after i, line i of the prompt list) is the      *)
(* content of the record whose custom id embeds i.                         *)
(***************************************************************************)
C31_RoutedByEmbeddedIndex ==
    ordPc = "done" =>
      LET n == Len(ordRecords)
          rec(i) == CHOOSE r \in {ordRecords[k] : k \in 1..n} :
                      ParseInt(r.custom_id[2]) = i
          ascending == [i \in 1..n |-> rec(i)]
      IN  /\ ordKind = "image" =>
               /\ ordOut = retrieve_batch_results(TRUE, ascending, <<>>).disk
               /\ \A i \in 1..n : FileName(i) \in DOMAIN ordOut
                     => ordOut[FileName(i)] = rec(i).b64_json
          /\ ordKind = "prompt" =>
               /\ ordOut = claude_retrieve_batch_results(ascending)
               /\ \A i \in DOMAIN ordOut : ordOut[i] = rec(i).content

(***************************************************************************)
(* C32.  When the upload or batches.create raises in a run of the batch    *)
(* submitter (the requests were built and the provider accepted no batch), *)
(* gpt_batch_info.json and the watcher registry are what they were before  *)
(* the run, and the run exits with code 1.                                 *)
(***************************************************************************)
C32_FailedSubmitLeavesNoTrace ==
    [][(/\ lastRun'.script = "submit" /\ lastReq' # {}
        /\ provider' = provider)
         => /\ batchInfo' = batchInfo
            /\ registry' = registry
            /\ lastRun'.exit = "1"]_vars

\* a failed submission of a project that has a descriptor and a registry
\* entry from an earlier, failed batch
C32_Witness ==
    /\ lastRun.script = "submit" /\ lastRun.exit = "1" /\ lastReq # {}
    /\ batchInfo.batch_id = 1 /\ provider[1] \in FailedStatuses
    /\ provider[2] = "none"
    /\ CurrentProject \in DOMAIN registry

C34_ExistingVideoNotSubmitted ==
    [][\A i \in vSubmitted' \ vSubmitted : i \notin vFiles]_vars

(***************************************************************************)
(* C38.  The checkpoint file never holds more than one index in            *)
(* pending_tasks.                                                          *)
(***************************************************************************)
C38_OnePendingAtMost ==
    vExists => Cardinality(DOMAIN vDisk.pending_tasks) <= 1

(***************************************************************************)
(* C35.  A job registered with register_batch is not lost to a watcher     *)
(* cycle that runs at the same time: no step other than a registration     *)
(* removes a registry entry that is still in the state register_batch      *)
(* gave it, or puts another batch id in its place.                         *)
(***************************************************************************)
C35_RegisteredNotLost ==
    [][\A p \in DOMAIN registry :
         (registry[p].status = "validating" /\ Created' = Created)
           => /\ p \in DOMAIN registry'
              /\ registry'[p].batch_id = registry[p].batch_id]_vars

(***************************************************************************)
(* The scheduled checker job (batch_checker_job.py main).  Every run is a  *)
(* process of its own; the runs share batch_status.json in the bucket and  *)
(* nothing else.                                                           *)
(***************************************************************************)
JobRuns == 1..MaxJobRuns

\* main line 176: the statuses the loop steps over
JobSkipStatuses ==
    {"completed", "failed", "expired", "cancelled", "post_flow_started"}

\* what check_batch_status_api returns for a batch that is not yet resolved
JobApiStatuses == {"in_progress", "completed", "failed", "error"}

JobInit ==
    /\ jbBlob \in UNION {[S -> {"in_progress"}] : S \in SUBSET Projects \ {{}}}
    /\ jbPc = [r \in JobRuns |-> "idle"]
    /\ jbMem = [r \in JobRuns |-> <<>>]
    /\ jbCompleted = [r \in JobRuns |-> {}]
    /\ jbLaunches = [p \in Projects |-> 0]
    /\ BaseParked
    /\ OrdParked /\ BadParked /\ SkipParked /\ MotParked

\* main lines 159-167: a run starts and loads the document
JobLoad(r) ==
    /\ jbPc[r] \in {"idle", "done"}
    /\ jbMem' = [jbMem EXCEPT ![r] = jbBlob]
    /\ jbCompleted' = [jbCompleted EXCEPT ![r] = {}]
    /\ jbPc' = [jbPc EXCEPT ![r] = "check"]
    /\ UNCHANGED <<jbBlob, jbLaunches, baseVars, ordVars, badVars, skipVars,
                   motVars>>

\* main lines 171-200: the status loop and the save that follows it
JobCheck(r) ==
    /\ jbPc[r] = "check"
    /\ LET projects == jbMem[r]
           queried == {p \in DOMAIN projects :
                         projects[p] \notin JobSkipStatuses}
       IN  \E api_status \in [queried -> JobApiStatuses] :
             LET updated == [p \in DOMAIN projects |->
                               IF p \in queried THEN api_status[p]
                               ELSE projects[p]]
             IN  /\ jbMem' = [jbMem EXCEPT ![r] = updated]
                 /\ jbBlob' = updated
                 /\ jbCompleted' =
                      [jbCompleted EXCEPT
                         ![r] = {p \in queried : api_status[p] = "completed"}]
    /\ jbPc' = [jbPc EXCEPT ![r] = "trigger"]
    /\ UNCHANGED <<jbLaunches, baseVars, ordVars, badVars, skipVars,
                   motVars>>

\* main lines 203-213: a launch is attempted for every project of
\* completed_projects and can fail; then the final save
JobTrigger(r) ==
    /\ jbPc[r] = "trigger"
    /\ \E launched \in SUBSET jbCompleted[r] :
         /\ \A p \in launched : jbLaunches[p] < MaxLaunches
         /\ jbLaunches' = [p \in Projects |->
                             IF p \in launched THEN jbLaunches[p] + 1
                             ELSE jbLaunches[p]]
         /\ LET marked == [p \in DOMAIN jbMem[r] |->
                             IF p \in launched THEN "post_flow_started"
                             ELSE jbMem[r][p]]
            IN  /\ jbMem' = [jbMem EXCEPT ![r] = marked]
                /\ jbBlob' = IF jbCompleted[r] # {} THEN marked ELSE jbBlob
    /\ jbPc' = [jbPc EXCEPT ![r] = "done"]
    /\ UNCHANGED <<jbCompleted, baseVars, ordVars, badVars, skipVars,
                   motVars>>

JobNext == \E r \in JobRuns : JobLoad(r) \/ JobCheck(r) \/ JobTrigger(r)

SpecJob == JobInit /\ [][JobNext]_vars

(***************************************************************************)
(* C36.  For each completed batch the checker launches the post-flow job   *)
(* at most once, for every interleaving of its runs.                       *)
(***************************************************************************)
C36_LaunchedAtMostOnce == \A p \in Projects : jbLaunches[p] <= 1

(***************************************************************************)
(* The watcher cycle (crawler_loop) over a registry some of whose entries  *)
(* lack the batch_id field.  The provider reports in_progress or failed    *)
(* for the batches; projects.items() visits the entries in the order of    *)
(* the file.                                                               *)
(***************************************************************************)
\* batch_status.json as it can be found: well-formed entries as
\* register_batch stores them, and entries without batch_id
BadInit ==
    /\ bdFile \in UNION {[1..n -> [ok : BOOLEAN, status : {"validating"}]] :
                           n \in 1..MaxBadEntries}
    /\ bdPc = "load" /\ bdPos = 0 /\ bdMem = <<>>
    /\ bdSeen = [k \in DOMAIN bdFile |-> "none"]
    /\ BaseParked
    /\ OrdParked /\ JobParked /\ SkipParked /\ MotParked

\* lines 256-266
BadLoad ==
    /\ bdPc = "load"
    /\ bdMem' = bdFile
    /\ bdPos' = 1
    /\ bdPc' = "check"
    /\ UNCHANGED <<bdFile, bdSeen, baseVars, ordVars, jobVars, skipVars,
                   motVars>>

\* lines 268-301: one entry of the status loop; project_info["batch_id"]
\* raises KeyError for an entry without the field, and the except clause
\* of line 334 ends the cycle there
BadCheck ==
    /\ bdPc = "check" /\ bdPos <= Len(bdMem)
    /\ IF ~bdMem[bdPos].ok
       THEN /\ bdPc' = "cooldown"
            /\ UNCHANGED <<bdPos, bdMem, bdSeen>>
       ELSE IF bdMem[bdPos].status \in SkipStatuses
       THEN /\ bdPos' = bdPos + 1
            /\ UNCHANGED <<bdPc, bdMem, bdSeen>>
       ELSE \E api_status \in {"in_progress", "failed"} :
              /\ bdMem' = [bdMem EXCEPT ![bdPos].status = api_status]
              /\ bdSeen' = [bdSeen EXCEPT ![bdPos] = api_status]
              /\ bdPos' = bdPos + 1
              /\ UNCHANGED bdPc
    /\ UNCHANGED <<bdFile, baseVars, ordVars, jobVars, skipVars,
                   motVars>>

\* line 304, reached when the status loop has visited every entry
BadSave ==
    /\ bdPc = "check" /\ bdPos > Len(bdMem)
    /\ bdFile' = bdMem
    /\ bdPc' = "sleep"
    /\ UNCHANGED <<bdPos, bdMem, bdSeen, baseVars, ordVars, jobVars, skipVars,
                   motVars>>

\* lines 328 and 338: the sleep is over, the next cycle starts
BadSleep ==
    /\ bdPc \in {"sleep", "cooldown"}
    /\ bdPc' = "load"
    /\ UNCHANGED <<bdFile, bdPos, bdMem, bdSeen, baseVars, ordVars, jobVars, skipVars,
                   motVars>>

BadNext == BadLoad \/ BadCheck \/ BadSave \/ BadSleep

\* the watcher is not stopped: every sleep ends and every statement returns
FairSpecBad == BadInit /\ [][BadNext]_vars /\ WF_vars(BadNext)

(***************************************************************************)
(* C37.  Whatever entries of the registry make the cycle body raise, every *)
(* other entry is eventually queried and the status the query returned is  *)
(* the one in the file.                                                    *)
(***************************************************************************)
C37_OthersStillPolled ==
    \A k \in 1..MaxBadEntries :
      <>((k \in DOMAIN bdFile /\ bdFile[k].ok)
           => (bdSeen[k] # "none" /\ bdFile[k].status = bdSeen[k]))

(***************************************************************************)
(* The skip test of the image phase, in the batch submitter and in the     *)
(* per-item generator, on the set of names check_existing_images resolved. *)
(* glob("*.png") and the Drive listing return every png of the directory:  *)
(* the images of the prompts 1..total and any other that is there, such as *)
(* an image left by a longer prompt list.                                  *)
(***************************************************************************)
SkipInit ==
    /\ skTotal \in 1..MaxItems
    /\ skImages \in SUBSET {FileName(i) : i \in 1..(MaxItems + 1)}
    /\ skRun = [script |-> "none", skipped |-> FALSE, requests |-> {}]
    /\ BaseParked
    /\ OrdParked /\ JobParked /\ BadParked /\ MotParked

\* p2_gpt_batch_submit.main lines 318-345
SkipSubmit ==
    /\ skRun.script = "none"
    /\ skRun' = [script |-> "submit",
                 skipped |-> AllDone(skImages, skTotal),
                 requests |-> IF AllDone(skImages, skTotal) THEN {}
                              ELSE prompts_to_process(skImages, skTotal)]
    /\ UNCHANGED <<skTotal, skImages, baseVars, ordVars, jobVars, badVars,
                   motVars>>

\* p2_gpt_generate_images.main lines 646-679
SkipGenerate ==
    /\ skRun.script = "none"
    /\ skRun' = [script |-> "generate",
                 skipped |-> AllDone(skImages, skTotal),
                 requests |-> IF AllDone(skImages, skTotal) THEN {}
                              ELSE {i \in 1..skTotal :
                                      FileName(i) \notin skImages}]
    /\ UNCHANGED <<skTotal, skImages, baseVars, ordVars, jobVars, badVars,
                   motVars>>

SkipNext == SkipSubmit \/ SkipGenerate

SpecSkip == SkipInit /\ [][SkipNext]_vars

(***************************************************************************)
(* C39.  The image phase is skipped only when every index 1..total has its *)
(* image in the resolved set.                                              *)
(***************************************************************************)
C39_SkipOnlyWhenAllPresent ==
    skRun.skipped
      => \A i \in 1..skTotal : FileName(i) \in skImages

(***************************************************************************)
(* Motion prompt phase (p1_3_claude_generate_motion.py): one line of       *)
(* motion_prompts_list.txt is appended for every image prompt whose        *)
(* generation succeeds; a run starts at the number of lines the file has.  *)
(* The video phase pairs line k with the k-th image (lines 234-292 of      *)
(* p2_5_hailuo_generate_videos.py).                                        *)
(***************************************************************************)
\* check_existing_motion_prompts: the number of non-blank lines
check_existing_motion_prompts(file) == Len(file)

\* generate_motion_prompts lines 337-435: the lines appended for the image
\* prompts from..to, in order; a prompt of failed_indices leaves no line
RECURSIVE MotionLines(_, _, _)
MotionLines(from, to, failed_indices) ==
    IF from > to THEN <<>>
    ELSE (IF from \in failed_indices THEN <<>> ELSE <<from>>)
         \o MotionLines(from + 1, to, failed_indices)

MotionInit ==
    /\ moTotal \in 1..MaxMotionPrompts
    /\ moFile = <<>> /\ moRuns = 0
    /\ BaseParked
    /\ OrdParked /\ JobParked /\ BadParked /\ SkipParked

\* one run of main: the loop from completed_count on, to its end or to the
\* prompt at which the process is stopped
MotionRun ==
    /\ moRuns < MaxMotionRuns
    /\ LET completed_count == check_existing_motion_prompts(moFile)
           pending == (completed_count + 1)..moTotal
       IN  \E failed_indices \in SUBSET pending,
              stop \in pending \cup {moTotal} :
             moFile' = moFile \o MotionLines(completed_count + 1, stop,
                                             failed_indices)
    /\ moRuns' = moRuns + 1
    /\ UNCHANGED <<moTotal, baseVars, ordVars, jobVars, badVars, skipVars>>

MotionNext == MotionRun

SpecMotion == MotionInit /\ [][MotionNext]_vars

(***************************************************************************)
(* C40.  After any sequence of runs, failures and resumes of the motion    *)
(* prompt phase, line k of the motion prompt file is the motion prompt     *)
(* generated for image prompt k.                                           *)
(***************************************************************************)
C40_LineKIsForImageK == \A k \in DOMAIN moFile : moFile[k] = k
====
